---- MODULE Spec2Model ----
(***************************************************************************)
(* Model of the Calorie Tracker user profile (calorie_tracker_user.py) and *)
(* of its storage manager (storage.py): the sparse date -> value maps, the *)
(* historical lookups, the metabolic estimator and the goal resolver.      *)
(*                                                                         *)
(* Numbers.  The code computes in binary floating point; the model         *)
(* computes the same expressions exactly, in scaled integers:              *)
(*   weights            whole units of the user's weight unit              *)
(*   body-fat percent   hundredths of a percent   (2500 is 25.00 %)        *)
(*   NEAT multiplier    hundredths                (120 is 1.2)             *)
(*   goal values        hundredths                (50000 is 500, 100 is 1.0)*)
(*   BMR                tenths of a kcal          (17800 is 1780.0)        *)
(*   daily targets      a pair [i, f]: floor and millionths (Fx below)     *)
(* Products that exceed 31 bits are taken with MulDivMod.                  *)
(*                                                                         *)
(* Dates.  Day n of the model's calendar is a date; DaysPerYear days make  *)
(* a year.  A date string is a record [day, form]:                         *)
(*   "date"  YYYY-MM-DD        "T"  YYYY-MM-DDTHH:MM                       *)
(*   "space" YYYY-MM-DD HH:MM  (one time of day stands for all)            *)
(* NoDate is Python's None passed for a date argument.                     *)
(***************************************************************************)
EXTENDS Integers, Sequences, FiniteSets, TLC

\* ---------------------------------------------------------------- bounds
MaxDay == 3
DaysPerYear == 2
MaxEntries == 1

Days == 1..MaxDay

\* Python's None for a number (every number of the model is >= 0 where None
\* can occur) and for a string.
None == -1
NoneStr == "None"
NoDate == [day |-> 0, form |-> NoneStr]

DateOf(day) == [day |-> day, form |-> "date"]
TimestampOf(day) == [day |-> day, form |-> "T"]
SpaceTimestampOf(day) == [day |-> day, form |-> "space"]

\* Year of a day of the model's calendar.
YearOf(day) == 2024 + ((day - 1) \div DaysPerYear)

\* ------------------------------------------------------------ date strings
\* Python's string order on the three forms: a date is a proper prefix of both
\* timestamps of its day, and " " sorts before "T".
FormRank(form) == CASE form = "date" -> 0 [] form = "space" -> 1 [] form = "T" -> 2

StrLeq(a, b) ==
    \/ a.day < b.day
    \/ a.day = b.day /\ FormRank(a.form) <= FormRank(b.form)

\* "T" in date_str
HasT(s) == s.form = "T"

\* date_str.split("T")[0]
SplitT(s) == IF s.form = "T" THEN DateOf(s.day) ELSE s

\* dt_util.parse_datetime(date_str).date(): the day of a date or a timestamp.
parse_date(s) == s.day

\* date.isoformat()
isoformat(day) == DateOf(day)

\* timestamp.startswith(prefix)
startswith(ts, prefix) ==
    IF prefix.form = "date" THEN ts.day = prefix.day ELSE ts = prefix

\* ---------------------------------------------------------------- numbers
\* round(): Python rounds n/d half to even.
RoundHalfEven(n, d) ==
    LET q == n \div d
        r == n % d
    IN  IF 2 * r < d THEN q
        ELSE IF 2 * r > d THEN q + 1
        ELSE IF q % 2 = 0 THEN q ELSE q + 1

\* Exact a*b = q*d + r with 0 <= r < d, for a, b >= 0 and d < 2^30, without
\* forming a*b.
RECURSIVE MulDivMod(_, _, _)
MulDivMod(a, b, d) ==
    IF b = 0 THEN [q |-> 0, r |-> 0]
    ELSE LET h == MulDivMod(a, b \div 2, d)
             r2 == 2 * h.r + (IF b % 2 = 1 THEN a % d ELSE 0)
             q2 == 2 * h.q + (IF b % 2 = 1 THEN a \div d ELSE 0)
         IN  [q |-> q2 + (r2 \div d), r |-> r2 % d]

\* round(off + a*b/(d1*d2)) half to even, all of a, b >= 0.
RoundQuot(off, a, b, d1, d2) ==
    LET m == MulDivMod(a, b, d1)
        q == off + (m.q \div d2)
        r2 == m.q % d2
        \* the remainder is (r2 + m.r/d1)/d2 of one unit
        twice == 2 * r2 + ((2 * m.r) \div d1)
        exact == (2 * m.r) % d1 = 0
    IN  IF twice < d2 THEN q
        ELSE IF twice > d2 \/ ~exact THEN q + 1
        ELSE IF q % 2 = 0 THEN q ELSE q + 1

\* A real number i + f/10^6 with 0 <= f < 10^6.
Fx(i, f) == [i |-> i, f |-> f]
FxNorm(i, f) == Fx(i + (f \div 1000000), f % 1000000)
FxInt(n) == Fx(n, 0)
\* n/den for den dividing 10^6
FxFrac(n, den) == FxNorm(n \div den, (n % den) * (1000000 \div den))
FxAdd(x, y) == FxNorm(x.i + y.i, x.f + y.f)
FxSub(x, y) == FxNorm(x.i - y.i, x.f - y.f)
\* int(x): truncation toward zero
FxTrunc(x) == IF x.i >= 0 \/ x.f = 0 THEN x.i ELSE x.i + 1
\* int(round(x)): half to even
FxRound(x) ==
    IF x.f < 500000 THEN x.i
    ELSE IF x.f > 500000 THEN x.i + 1
    ELSE IF x.i % 2 = 0 THEN x.i ELSE x.i + 1

\* ------------------------------------------------------------ dictionaries
\* d[key] = value
DictSet(d, key, value) ==
    [k \in (DOMAIN d) \cup {key} |-> IF k = key THEN value ELSE d[k]]

\* d.get(key)
DictGet(d, key) == IF key \in DOMAIN d THEN d[key] ELSE None

EmptyDict == [k \in {} |-> None]

\* sorted(keys): ascending in string order
RECURSIVE sorted(_)
sorted(S) ==
    IF S = {} THEN <<>>
    ELSE LET m == CHOOSE x \in S : \A y \in S : StrLeq(x, y)
         IN  <<m>> \o sorted(S \ {m})

\* The loop "for k in keys: if k <= date: result = k else: break": the last key
\* taken before the loop breaks (NoDate when the first key already breaks it).
RECURSIVE ScanUntilAfter(_, _, _, _)
ScanUntilAfter(keys, i, date, result) ==
    IF i > Len(keys) THEN result
    ELSE IF StrLeq(keys[i], date) THEN ScanUntilAfter(keys, i + 1, date, keys[i])
    ELSE result

VARIABLES
    weights,           \* CalorieStorageManager._weights
    body_fat_pcts,     \* CalorieStorageManager._body_fat_pcts
    goals,             \* CalorieStorageManager._goals
    food_entries,      \* CalorieStorageManager._food_entries
    exercise_entries,  \* CalorieStorageManager._exercise_entries
    store,             \* the data last written to the Store
    user,              \* the fields of CalorieTrackerUser
    today,             \* dt_util.now().date()
    next_id,           \* the next fresh uuid
    config_entries,    \* hass.config_entries.async_entries(DOMAIN), in order
    SPOKEN_NAME_CACHE, \* services._SPOKEN_NAME_CACHE
    runtime_data,      \* the stored collections of each entry's user
    service_response,  \* what the service handler of this step answered
    hass_data,         \* hass.data[DOMAIN][last_logged_key] of the Peloton link
    peloton_latest,    \* the workout GetRecentWorkouts(1) answers with
    poll_runs,         \* the runs of poll_latest_workout, each where it stands
    save_goals_run,    \* the websocket_save_goals coroutine, where it stands
    async_setup_done,  \* the component is loaded: async_setup has run
    services_registered, \* hass.services has the five services of DOMAIN
    linked_profiles,   \* entry.options["linked_component_profiles"]["peloton"]
    remove_callbacks,  \* entry.runtime_data["remove_callbacks"]
    listeners,         \* the interval listeners registered and not cancelled
    profile_map,       \* UserProfileMapStorage._map
    profile_map_store, \* what the store of the user profile map holds
    async_set_runs     \* the runs of UserProfileMapStorage.async_set

\* The fields of Home Assistant around the one user.
peloton_vars == <<hass_data, peloton_latest, poll_runs>>
listener_vars == <<linked_profiles, remove_callbacks, listeners>>
profile_map_vars == <<profile_map, profile_map_store, async_set_runs>>
task_vars == <<save_goals_run, async_setup_done, services_registered, listener_vars,
               profile_map_vars>>
hass_vars == <<config_entries, SPOKEN_NAME_CACHE, runtime_data, service_response,
               peloton_vars, task_vars>>

vars == <<weights, body_fat_pcts, goals, food_entries, exercise_entries,
          store, user, today, next_id, hass_vars>>

storage_vars == <<weights, body_fat_pcts, goals, food_entries, exercise_entries,
                  store>>


\* ------------------------------------------------- CalorieStorageManager
NoGoal == [goal_type |-> NoneStr, goal_value |-> None, start_date |-> NoDate]

\* goal = self._goals[date].copy(); goal["start_date"] = date
GoalCopyAt(date) ==
    [goal_type |-> goals[date].goal_type,
     goal_value |-> goals[date].goal_value,
     start_date |-> date]

storage_get_goal_no_fallback(date) ==
    IF DOMAIN goals = {} THEN NoGoal
    ELSE IF date \in DOMAIN goals THEN GoalCopyAt(date)
    ELSE LET goal_dates == sorted(DOMAIN goals)
             result_date == ScanUntilAfter(goal_dates, 1, date, NoDate)
         IN  IF result_date # NoDate THEN GoalCopyAt(result_date) ELSE NoGoal

storage_get_goal(date) ==
    IF DOMAIN goals = {} THEN NoGoal
    ELSE IF date \in DOMAIN goals THEN GoalCopyAt(date)
    ELSE LET goal_dates == sorted(DOMAIN goals)
             result_date == ScanUntilAfter(goal_dates, 1, date, NoDate)
         IN  IF result_date # NoDate THEN GoalCopyAt(result_date)
             ELSE IF Len(goal_dates) > 0 THEN GoalCopyAt(goal_dates[1])
             ELSE NoGoal

\* self._goals once get_goal has returned: "start_date" is set on a copy, so the
\* stored goals are what they were.
storage_goals_after_get_goal_without_copy(date) ==
    LET goal == storage_get_goal(date)
    IN  IF goal = NoGoal THEN goals
        ELSE [goals EXCEPT ![goal.start_date] = goal]

storage_goals_after_get_goal(date) == goals

storage_get_weight(date_str) == DictGet(weights, date_str)

storage_get_body_fat_pct(date_str) == DictGet(body_fat_pcts, date_str)

\* async_load on a fresh manager: the five collections of the data the store
\* holds, the empty ones of __init__ when the store holds none.
async_load ==
    IF store.saved
    THEN [food_entries |-> store.food_entries,
          exercise_entries |-> store.exercise_entries,
          weights |-> store.weights,
          body_fat_pcts |-> store.body_fat_pcts,
          goals |-> store.goals]
    ELSE [food_entries |-> <<>>, exercise_entries |-> <<>>, weights |-> EmptyDict,
          body_fat_pcts |-> EmptyDict, goals |-> EmptyDict]

async_save_before_change ==
    store' = [saved |-> TRUE,
              food_entries |-> food_entries,
              exercise_entries |-> exercise_entries,
              weights |-> weights,
              body_fat_pcts |-> body_fat_pcts,
              goals |-> goals]

\* The dictionary handed to Store.async_save, built from the fields as they are
\* when the handler reaches its save.
async_save ==
    store' = [saved |-> TRUE,
              food_entries |-> food_entries',
              exercise_entries |-> exercise_entries',
              weights |-> weights',
              body_fat_pcts |-> body_fat_pcts',
              goals |-> goals']

set_weight_forgetting(date_str, weight) ==
    weights' = DictSet(EmptyDict, date_str, weight)

set_weight(date_str, weight) ==
    weights' = DictSet(weights, date_str, weight)

set_body_fat_pct(date_str, body_fat_pct) ==
    body_fat_pcts' = DictSet(body_fat_pcts, date_str, body_fat_pct)

storage_async_log_weight(date_str, weight) ==
    /\ set_weight(date_str, weight)
    /\ UNCHANGED <<body_fat_pcts, goals, food_entries, exercise_entries>>
    /\ async_save

storage_async_log_body_fat_pct(date_str, body_fat_pct) ==
    /\ set_body_fat_pct(date_str, body_fat_pct)
    /\ UNCHANGED <<weights, goals, food_entries, exercise_entries>>
    /\ async_save

storage_add_goal(date, goal_type, goal_value) ==
    /\ goals' = DictSet(goals, date, [goal_type |-> goal_type, goal_value |-> goal_value])
    /\ UNCHANGED <<weights, body_fat_pcts, food_entries, exercise_entries>>
    /\ async_save

async_clear_goals ==
    /\ goals' = EmptyDict
    /\ UNCHANGED <<weights, body_fat_pcts, food_entries, exercise_entries>>
    /\ async_save
    /\ UNCHANGED <<user, today, next_id, hass_vars>>

\* ----------------------------------------------------- CalorieTrackerUser
\* date_str or today: the date the lookups resolve a date argument to.
TargetDay(date_str) == IF date_str # NoDate THEN parse_date(date_str) ELSE today

get_goal(date_str) ==
    storage_get_goal(IF date_str = NoDate THEN isoformat(today) ELSE date_str)

get_weight_no_later(date_str) ==
    LET target_iso == isoformat(TargetDay(date_str))
        weight == storage_get_weight(target_iso)
        all_entries == sorted(DOMAIN weights)
        before == ScanUntilAfter(all_entries, 1, target_iso, NoDate)
    IN  IF weight # None THEN weight
        ELSE IF before # NoDate THEN weights[before]
        ELSE user.starting_weight

get_weight(date_str) ==
    LET target_iso == isoformat(TargetDay(date_str))
        weight == storage_get_weight(target_iso)
        all_entries == sorted(DOMAIN weights)
        before == ScanUntilAfter(all_entries, 1, target_iso, NoDate)
        most_recent_before == IF before = NoDate THEN None ELSE weights[before]
    IN  IF weight # None THEN weight
        ELSE IF Len(all_entries) = 0 THEN user.starting_weight
        ELSE IF most_recent_before # None THEN most_recent_before
        ELSE weights[all_entries[1]]

get_body_fat_pct(date_str) ==
    LET target_iso == isoformat(TargetDay(date_str))
        body_fat_pct == storage_get_body_fat_pct(target_iso)
        all_entries == sorted(DOMAIN body_fat_pcts)
        before == ScanUntilAfter(all_entries, 1, target_iso, NoDate)
        most_recent_before == IF before = NoDate THEN None ELSE body_fat_pcts[before]
    IN  IF body_fat_pct # None THEN body_fat_pct
        ELSE IF Len(all_entries) = 0 THEN user.body_fat_pct
        ELSE IF most_recent_before # None THEN most_recent_before
        ELSE body_fat_pcts[all_entries[1]]

\* The key the two logging methods store under.
LogKey(date_str) ==
    IF date_str = NoDate THEN isoformat(today)
    ELSE IF HasT(date_str) THEN SplitT(date_str)
    ELSE date_str

async_log_weight_raw_key(weight, date_str) ==
    /\ storage_async_log_weight(
           IF date_str = NoDate THEN isoformat(today) ELSE date_str, weight)
    /\ UNCHANGED <<user, today, next_id, hass_vars>>

async_log_weight(weight, date_str) ==
    /\ storage_async_log_weight(LogKey(date_str), weight)
    /\ UNCHANGED <<user, today, next_id, hass_vars>>

async_log_body_fat_pct(body_fat_pct, date_str) ==
    /\ storage_async_log_body_fat_pct(LogKey(date_str), body_fat_pct)
    /\ UNCHANGED <<user, today, next_id, hass_vars>>

\* CalorieTrackerUser.set_body_fat_pct: the profile value and the log, the key
\* as given.
user_set_body_fat_pct(pct, date_str) ==
    /\ user' = [user EXCEPT !.body_fat_pct = pct]
    /\ set_body_fat_pct(date_str, pct)
    /\ UNCHANGED <<weights, goals, food_entries, exercise_entries>>
    /\ async_save
    /\ UNCHANGED <<today, next_id, hass_vars>>

\* goal_value arrives in thousandths; it is stored in hundredths.
add_goal(goal_type, goal_value, date_str) ==
    LET date == IF date_str = NoDate THEN isoformat(today) ELSE date_str
        goal_value_store ==
            IF goal_type \in {"variable_cut", "variable_bulk"}
            THEN RoundHalfEven(goal_value, 10)
            ELSE 100 * RoundHalfEven(goal_value, 1000)
    IN  /\ storage_add_goal(date, goal_type, goal_value_store)
        /\ UNCHANGED <<user, today, next_id, hass_vars>>

\* ---------------------------------------------------- metabolic estimator
get_sex == user.sex
get_birth_year == user.birth_year
get_neat == user.neat

\* self._weight_unit or "lbs"
get_weight_unit ==
    IF user.weight_unit = NoneStr \/ user.weight_unit = "" THEN "lbs"
    ELSE user.weight_unit

\* Height in hundredths of a centimetre (an inch is 2.54 cm), None if unset.
get_height_in_cm ==
    IF user.height = None THEN None
    ELSE IF user.height_unit = "in" THEN user.height * 254
    ELSE user.height * 100

\* sex.lower()
lower(str) ==
    CASE str = "Male" -> "male" [] str = "Female" -> "female"
      [] str = "Alice" -> "alice" [] str = "Bob" -> "bob" [] OTHER -> str

\* Millionths of a kilogram in one unit of weight: weight * 0.453592 for lbs.
KgMicro(weight_unit) == IF weight_unit = "lbs" THEN 453592 ELSE 1000000

\* Tiers 1 and 2, in tenths: lean_body_mass = weight_kg * (1 - body_fat_pct/100),
\* then 500 + 22 * lean (Cunningham) above 25 %, 370 + 21.6 * lean (Katch-McArdle)
\* otherwise, rounded to one decimal.
body_fat_bmr_from_25(weight, kg_micro, body_fat_pct) ==
    IF body_fat_pct >= 2500
    THEN RoundQuot(5000, 220 * weight * (10000 - body_fat_pct), kg_micro, 1000000, 10000)
    ELSE RoundQuot(3700, 216 * weight * (10000 - body_fat_pct), kg_micro, 1000000, 10000)

body_fat_bmr(weight, kg_micro, body_fat_pct) ==
    IF body_fat_pct > 2500
    THEN RoundQuot(5000, 220 * weight * (10000 - body_fat_pct), kg_micro, 1000000, 10000)
    ELSE RoundQuot(3700, 216 * weight * (10000 - body_fat_pct), kg_micro, 1000000, 10000)

\* Tier 3, in tenths: 879 + 10.2 * kg (male), 795 + 7.18 * kg (female).
owen_bmr(sex, weight, kg_micro) ==
    IF lower(sex) = "male" THEN RoundQuot(8790, 102 * weight, kg_micro, 1000000, 1)
    ELSE IF lower(sex) = "female" THEN RoundQuot(7950, 718 * weight, kg_micro, 1000000, 10)
    ELSE None

\* Tier 4, in tenths: 10 * kg + 6.25 * cm - 5 * age + 5 (male), - 161 (female).
mifflin_bmr(sex, weight, kg_micro, height_cm, age) ==
    IF lower(sex) = "male"
    THEN RoundQuot(50 - 50 * age, weight * kg_micro + 6250 * height_cm, 1, 10000, 1)
    ELSE IF lower(sex) = "female"
    THEN RoundQuot((-1610) - 50 * age, weight * kg_micro + 6250 * height_cm, 1, 10000, 1)
    ELSE None

calculate_bmr_without_guard(date_str) ==
    body_fat_bmr(get_weight(date_str), KgMicro(get_weight_unit),
                 get_body_fat_pct(date_str))

\* The BMR in tenths of a kcal, or None.
calculate_bmr(date_str) ==
    LET sex == get_sex
        birth_year == get_birth_year
        height_cm == get_height_in_cm
        weight == get_weight(date_str)
    IN  IF \/ sex = NoneStr \/ sex = ""
           \/ height_cm = None \/ height_cm = 0
           \/ weight = None \/ weight = 0
        THEN None
        ELSE LET kg_micro == KgMicro(get_weight_unit)
                 body_fat_pct == get_body_fat_pct(date_str)
                 \* bmi = weight_kg / (height_m * height_m) > 25
                 bmi_over_25 == 4 * weight * kg_micro > height_cm * height_cm
             IN  IF body_fat_pct # None
                 THEN body_fat_bmr(weight, kg_micro, body_fat_pct)
                 ELSE IF bmi_over_25 THEN owen_bmr(sex, weight, kg_micro)
                 ELSE IF birth_year = None THEN None
                 ELSE mifflin_bmr(sex, weight, kg_micro, height_cm,
                                  YearOf(TargetDay(date_str)) - birth_year)

\* The profile setters.
set_sex(sex) ==
    /\ user' = [user EXCEPT !.sex = sex]
    /\ UNCHANGED <<storage_vars, today, next_id, hass_vars>>

set_birth_year(year) ==
    /\ user' = [user EXCEPT !.birth_year = year]
    /\ UNCHANGED <<storage_vars, today, next_id, hass_vars>>

set_height(height) ==
    /\ user' = [user EXCEPT !.height = height]
    /\ UNCHANGED <<storage_vars, today, next_id, hass_vars>>

set_height_unit(height_unit) ==
    /\ user' = [user EXCEPT !.height_unit = height_unit]
    /\ UNCHANGED <<storage_vars, today, next_id, hass_vars>>

update_weight_unit(weight_unit) ==
    /\ user' = [user EXCEPT !.weight_unit = weight_unit]
    /\ UNCHANGED <<storage_vars, today, next_id, hass_vars>>

set_neat(neat) ==
    /\ user' = [user EXCEPT !.neat = neat]
    /\ UNCHANGED <<storage_vars, today, next_id, hass_vars>>

\* ------------------------------------------------- food and exercise log
\* _normalize_local_timestamp: the local timestamp YYYY-MM-DDTHH:MM of the
\* given time, of now when none is given.
normalize_local_timestamp(ts) ==
    TimestampOf(IF ts = NoDate THEN today ELSE parse_date(ts))

add_food_entry(timestamp, calories) ==
    food_entries' = Append(food_entries,
                           [id |-> next_id, timestamp |-> timestamp,
                            calories |-> calories])

async_log_food(calories, timestamp) ==
    /\ Len(food_entries) < MaxEntries
    /\ add_food_entry(normalize_local_timestamp(timestamp), calories)
    /\ next_id' = next_id + 1
    /\ UNCHANGED <<weights, body_fat_pcts, goals, exercise_entries>>
    /\ async_save
    /\ UNCHANGED <<user, today, hass_vars>>

storage_async_log_exercise(timestamp, calories_burned) ==
    /\ exercise_entries' = Append(exercise_entries,
                                  [id |-> next_id, timestamp |-> timestamp,
                                   calories_burned |-> calories_burned])
    /\ next_id' = next_id + 1
    /\ UNCHANGED <<weights, body_fat_pcts, goals, food_entries>>
    /\ async_save

async_log_exercise(calories_burned, timestamp) ==
    /\ Len(exercise_entries) < MaxEntries
    /\ storage_async_log_exercise(normalize_local_timestamp(timestamp), calories_burned)
    /\ UNCHANGED <<user, today, hass_vars>>

\* The loop "for idx, entry in enumerate(entries): if entry["id"] == entry_id":
\* the index it stops at, 0 when it runs through, and the KeyError it raises
\* when it comes to an entry without "id" first.
RECURSIVE find_entry(_, _, _)
find_entry(entries, entry_id, idx) ==
    IF idx > Len(entries) THEN [idx |-> 0, raised |-> NoneStr]
    ELSE IF entries[idx].id = None THEN [idx |-> 0, raised |-> "KeyError"]
    ELSE IF entries[idx].id = entry_id THEN [idx |-> idx, raised |-> NoneStr]
    ELSE find_entry(entries, entry_id, idx + 1)

\* del entries[idx]
DelAt(entries, idx) ==
    [i \in 1..(Len(entries) - 1) |-> IF i < idx THEN entries[i] ELSE entries[i + 1]]

\* CalorieTrackerUser.delete_entry where the storage returns True: the entry is
\* removed and the data saved.  (False and KeyError leave everything as it is.)
delete_entry(entry_type, entry_id) ==
    LET entries == IF entry_type = "food" THEN food_entries ELSE exercise_entries
        idx == find_entry(entries, entry_id, 1).idx
    IN  /\ entry_type \in {"food", "exercise"}
        /\ idx \in 1..Len(entries)
        /\ IF entry_type = "food"
           THEN food_entries' = DelAt(entries, idx) /\ UNCHANGED exercise_entries
           ELSE exercise_entries' = DelAt(entries, idx) /\ UNCHANGED food_entries
        /\ UNCHANGED <<weights, body_fat_pcts, goals>>
        /\ async_save
        /\ UNCHANGED <<user, today, next_id, hass_vars>>

\* storage.update_entry's "entries[idx] = new_entry"
storage_update_entry(entries, idx, new_entry) ==
    [entries EXCEPT ![idx] = new_entry]

\* CalorieTrackerUser.update_entry where the storage returns True: the entry is
\* replaced by the dict of the message and the data saved.
update_entry(entry_type, entry_id, new_entry) ==
    LET entries == IF entry_type = "food" THEN food_entries ELSE exercise_entries
        idx == find_entry(entries, entry_id, 1).idx
    IN  /\ entry_type \in {"food", "exercise"}
        /\ idx \in 1..Len(entries)
        /\ IF entry_type = "food"
           THEN /\ food_entries' = storage_update_entry(entries, idx, new_entry)
                /\ UNCHANGED exercise_entries
           ELSE /\ exercise_entries' = storage_update_entry(entries, idx, new_entry)
                /\ UNCHANGED food_entries
        /\ UNCHANGED <<weights, body_fat_pcts, goals>>
        /\ async_save
        /\ UNCHANGED <<user, today, next_id, hass_vars>>

\* sum(...) over a sequence of numbers
RECURSIVE SeqSum(_)
SeqSum(s) == IF s = <<>> THEN 0 ELSE Head(s) + SeqSum(Tail(s))

\* The calories of get_log: (food, exercise) of the entries whose timestamp
\* starts with the target date string.
get_log(date_str) ==
    LET target_date_str ==
            IF date_str = NoDate THEN isoformat(today)
            ELSE IF HasT(date_str) THEN SplitT(date_str)
            ELSE date_str
        food == SeqSum([i \in 1..Len(food_entries) |->
                    IF startswith(food_entries[i].timestamp, target_date_str)
                    THEN food_entries[i].calories ELSE 0])
        exercise == SeqSum([i \in 1..Len(exercise_entries) |->
                    IF startswith(exercise_entries[i].timestamp, target_date_str)
                    THEN exercise_entries[i].calories_burned ELSE 0])
    IN  [weight |-> get_weight(date_str),
         body_fat_pct |-> get_body_fat_pct(date_str),
         food |-> food, exercise |-> exercise]

\* ------------------------------------------------------------ goal resolver
get_goal_type(date_str) ==
    LET goal == get_goal(date_str)
    IN  IF goal # NoGoal THEN goal.goal_type ELSE user.goal_type

\* The goal types of the model that start with "variable", and those of them
\* that contain "cut" and "bulk".
StartsWithVariableKnownOnly(goal_type) ==
    goal_type \in {"variable_cut", "variable_bulk"}

StartsWithVariable(goal_type) ==
    goal_type \in {"variable_cut", "variable_bulk", "variable_maintain"}
ContainsCut(goal_type) == goal_type = "variable_cut"
ContainsBulk(goal_type) == goal_type = "variable_bulk"

\* bmr * neat: tenths times hundredths
bmr_baseline(bmr, neat) == FxFrac(bmr * neat, 1000)

\* Millionths of a pound in one unit of weight: current_weight * 2.20462 for kg.
LbsMicro(weight_unit) == IF weight_unit = "kg" THEN 2204620 ELSE 1000000

\* weight_lbs * goal_value / 100 * 3500 / 7, goal_value in hundredths: the
\* product weight * goal_value * LbsMicro / 20 is in millionths.
daily_adjustment(current_weight, weight_unit, goal_value) ==
    LET m == MulDivMod(current_weight * goal_value, LbsMicro(weight_unit) \div 20,
                       1000000)
    IN  Fx(m.q, m.r)

\* What a target computation ends with: a daily goal, or the early "return 0".
NoTarget == [ok |-> FALSE, value |-> FxInt(0)]
Target(x) == [ok |-> TRUE, value |-> x]

\* calculate_daily_goal_calories up to its return: daily_goal before int().
daily_goal(date_str) ==
    LET goal == get_goal(date_str)
        goal_type == IF goal # NoGoal THEN goal.goal_type ELSE get_goal_type(NoDate)
        goal_value == IF goal # NoGoal THEN goal.goal_value ELSE user.goal_value
        bmr == calculate_bmr(date_str)
        neat == get_neat
        current_weight == get_weight(date_str)
        adjustment == daily_adjustment(current_weight, get_weight_unit, goal_value)
    IN  IF goal_type = NoneStr \/ goal_type = "" \/ goal_value = None \/ goal_value = 0
        THEN NoTarget
        ELSE IF StartsWithVariable(goal_type)
        THEN IF bmr = None THEN NoTarget
             ELSE IF current_weight = None THEN NoTarget
             ELSE IF ContainsCut(goal_type)
                  THEN Target(FxSub(bmr_baseline(bmr, neat), adjustment))
             ELSE IF ContainsBulk(goal_type)
                  THEN Target(FxAdd(bmr_baseline(bmr, neat), adjustment))
             ELSE Target(FxSub(bmr_baseline(bmr, neat), adjustment))
        ELSE IF goal_type \in {"fixed_intake", "fixed_net_calories"}
        THEN Target(FxFrac(goal_value, 100))
        ELSE IF goal_type = "fixed_deficit"
        THEN IF bmr = None THEN NoTarget
             ELSE Target(FxSub(bmr_baseline(bmr, neat), FxFrac(goal_value, 100)))
        ELSE IF goal_type = "fixed_surplus"
        THEN IF bmr = None THEN NoTarget
             ELSE Target(FxAdd(bmr_baseline(bmr, neat), FxFrac(goal_value, 100)))
        ELSE Target(FxFrac(goal_value, 100))

calculate_daily_goal_calories(date_str) ==
    LET target == daily_goal(date_str)
    IN  IF target.ok THEN FxTrunc(target.value) ELSE 0

\* calculate_remaining_calories has its own copy of the target computation.
remaining_daily_goal(date_str) ==
    LET goal == get_goal(date_str)
        goal_type == IF goal # NoGoal THEN goal.goal_type ELSE get_goal_type(NoDate)
        goal_value == IF goal # NoGoal THEN goal.goal_value ELSE user.goal_value
        bmr == calculate_bmr(date_str)
        neat == get_neat
        current_weight == get_weight(date_str)
        adjustment == daily_adjustment(current_weight, get_weight_unit, goal_value)
    IN  IF goal_type = NoneStr \/ goal_type = "" \/ goal_value = None \/ goal_value = 0
        THEN NoTarget
        ELSE IF StartsWithVariable(goal_type)
        THEN IF bmr = None THEN NoTarget
             ELSE IF current_weight = None THEN NoTarget
             ELSE IF ContainsCut(goal_type)
                  THEN Target(FxSub(bmr_baseline(bmr, neat), adjustment))
             ELSE IF ContainsBulk(goal_type)
                  THEN Target(FxAdd(bmr_baseline(bmr, neat), adjustment))
             ELSE Target(FxSub(bmr_baseline(bmr, neat), adjustment))
        ELSE IF goal_type \in {"fixed_intake", "fixed_net_calories"}
        THEN Target(FxFrac(goal_value, 100))
        ELSE IF goal_type = "fixed_deficit"
        THEN IF bmr = None THEN NoTarget
             ELSE Target(FxSub(bmr_baseline(bmr, neat), FxFrac(goal_value, 100)))
        ELSE IF goal_type = "fixed_surplus"
        THEN IF bmr = None THEN NoTarget
             ELSE Target(FxAdd(bmr_baseline(bmr, neat), FxFrac(goal_value, 100)))
        ELSE Target(FxFrac(goal_value, 100))

current_calories_food_only(goal_type, food, exercise) == food

\* food for a fixed_intake goal, food - exercise for every other goal type
current_calories(goal_type, food, exercise) ==
    IF goal_type = "fixed_net_calories" \/ StartsWithVariable(goal_type)
    THEN food - exercise
    ELSE IF goal_type = "fixed_intake" THEN food
    ELSE food - exercise

calculate_remaining_calories(date_str) ==
    LET log == get_log(date_str)
        goal == get_goal(date_str)
        goal_type == IF goal # NoGoal THEN goal.goal_type ELSE get_goal_type(NoDate)
        target == remaining_daily_goal(date_str)
        remaining == FxSub(target.value,
                           FxInt(current_calories(goal_type, log.food, log.exercise)))
    IN  IF target.ok THEN FxTrunc(remaining) ELSE 0

\* get_weekly_summary, the daily_calorie_goal of one date of the week.
weekly_daily_calorie_goal(date_iso) ==
    LET bmr == calculate_bmr(date_iso)
        bmr_and_neat == IF bmr = None \/ bmr = 0 THEN 0
                        ELSE FxRound(bmr_baseline(bmr, user.neat))
        goal == get_goal(date_iso)
        goal_type == IF goal # NoGoal THEN goal.goal_type ELSE "Not Found"
        goal_value == IF goal # NoGoal THEN goal.goal_value ELSE 0
        weight == IF get_weight(date_iso) = None THEN 0 ELSE get_weight(date_iso)
        cal_per_weight == IF get_weight_unit = "kg" THEN 7700 ELSE 3500
        \* (weight * percent / 7.0) * cal_per_weight, as a fraction over 70000
        per_day_delta == weight * goal_value * cal_per_weight
    IN  IF goal_type \in {"fixed_intake", "fixed_net_calories"}
        THEN FxRound(FxFrac(goal_value, 100))
        ELSE IF goal_type = "fixed_deficit"
        THEN FxRound(FxSub(FxInt(bmr_and_neat), FxFrac(goal_value, 100)))
        ELSE IF goal_type = "fixed_surplus"
        THEN FxRound(FxAdd(FxInt(bmr_and_neat), FxFrac(goal_value, 100)))
        ELSE IF goal_type \in {"variable_cut", "variable_bulk"}
        THEN IF goal_type = "variable_cut"
             THEN RoundHalfEven(70000 * bmr_and_neat - per_day_delta, 70000)
             ELSE RoundHalfEven(70000 * bmr_and_neat + per_day_delta, 70000)
        ELSE FxRound(FxFrac(goal_value, 100))

\* The daily_calorie_goal column of get_weekly_summary; the week is the days
\* of the model's calendar.
get_weekly_summary(date_str) ==
    [date_iso \in {isoformat(d) : d \in Days} |-> weekly_daily_calorie_goal(date_iso)]

AdvanceDay ==
    /\ today < MaxDay
    /\ today' = today + 1
    /\ UNCHANGED <<weights, body_fat_pcts, goals, food_entries, exercise_entries,
                   store, user, next_id, hass_vars>>

\* ----------------------------------------------------------- construction
StorageInit ==
    /\ weights = EmptyDict
    /\ body_fat_pcts = EmptyDict
    /\ goals = EmptyDict
    /\ food_entries = <<>>
    /\ exercise_entries = <<>>
    /\ store = [saved |-> FALSE, food_entries |-> <<>>, exercise_entries |-> <<>>,
                weights |-> EmptyDict, body_fat_pcts |-> EmptyDict,
                goals |-> EmptyDict]

\* CalorieTrackerUser.__init__ over a storage that holds no goal yet.
NewUser(starting_weight, weight_unit, birth_year, sex, height, height_unit, neat) ==
    [goal_value |-> 0, goal_type |-> NoneStr,
     starting_weight |-> starting_weight, weight_unit |-> weight_unit,
     birth_year |-> birth_year, sex |-> sex,
     height |-> height, height_unit |-> height_unit,
     body_fat_pct |-> 0, neat |-> neat]

\* The integration around the user left out: no config entry, nothing cached,
\* no service called.
NoResponse == [service |-> NoneStr]

\* No Peloton profile linked: no workout, nothing logged, no run.
NoWorkout == [id |-> None, status |-> NoneStr]

PelotonIdle ==
    /\ hass_data = None
    /\ peloton_latest = NoWorkout
    /\ poll_runs = <<>>

\* No handler under way, the services as async_setup leaves them, no profile
\* linked, no user mapped.
NoRun == [pc |-> "done"]

TasksIdle ==
    /\ save_goals_run = NoRun
    /\ async_setup_done = TRUE
    /\ services_registered = TRUE
    /\ linked_profiles = {}
    /\ remove_callbacks = <<>>
    /\ listeners = {}
    /\ profile_map = [k \in {} |-> NoneStr]
    /\ profile_map_store = [k \in {} |-> NoneStr]
    /\ async_set_runs = [k \in {} |-> NoRun]

HassIdle ==
    /\ config_entries = <<>>
    /\ SPOKEN_NAME_CACHE = [k \in {} |-> NoneStr]
    /\ runtime_data = <<>>
    /\ service_response = NoResponse
    /\ PelotonIdle
    /\ TasksIdle

\* ------------------------------------------------------------ input sets
WeightVals == {170, 180}
BodyFatVals == {2000, 3000}
StartingWeights == {0, 175}
DateArgs == {NoDate} \cup {DateOf(d) : d \in Days} \cup {TimestampOf(d) : d \in Days}
QueryArgs == DateArgs \cup {SpaceTimestampOf(d) : d \in Days}

\* ---------------------------------------------- logging and looking up
Init ==
    /\ StorageInit
    /\ \E sw \in StartingWeights :
           user = NewUser(sw, "lbs", None, NoneStr, None, "cm", 120)
    /\ today = 1
    /\ next_id = 1
    /\ HassIdle

Next ==
    \/ \E v \in WeightVals, d \in DateArgs : async_log_weight(v, d)
    \/ \E p \in BodyFatVals, d \in DateArgs : async_log_body_fat_pct(p, d)
    \/ \E p \in BodyFatVals, d \in Days : user_set_body_fat_pct(p, DateOf(d))
    \/ AdvanceDay

Spec == Init /\ [][Next]_vars


\* ------------------------------------------------- the two logs on one day
\* The logging operations alone, the clock standing at the second day.
InitLog ==
    /\ StorageInit
    /\ user = NewUser(175, "lbs", None, NoneStr, None, "cm", 120)
    /\ today = 2
    /\ next_id = 1
    /\ HassIdle

NextLog ==
    \/ \E v \in WeightVals, d \in DateArgs : async_log_weight(v, d)
    \/ \E p \in BodyFatVals, d \in DateArgs : async_log_body_fat_pct(p, d)

SpecLog == InitLog /\ [][NextLog]_vars

\* ------------------------------------------------------ the goal history
\* Two goals tell the entries of the history apart.
GoalArgsSmall == {<<"fixed_intake", 2000000>>, <<"variable_cut", 1000>>}

DefaultUser == NewUser(175, "lbs", None, NoneStr, None, "cm", 120)

InitGoals ==
    /\ StorageInit
    /\ user = DefaultUser
    /\ today = 1
    /\ next_id = 1
    /\ HassIdle

NextGoals ==
    \/ \E g \in GoalArgsSmall, d \in DateArgs : add_goal(g[1], g[2], d)
    \/ async_clear_goals
    \/ AdvanceDay

SpecGoals == InitGoals /\ [][NextGoals]_vars

\* -------------------------------------------------- the profile and the BMR
Sexes == {"male", "Male", "female", "other"}
BirthYears == {1994}
Heights == {180, 71}
HeightUnits == {"cm", "in"}
WeightUnits == {"lbs", "kg"}
BmrWeights == {80, 180}
BmrBodyFats == {2000, 2500, 3000}
BmrLogDates == {NoDate, TimestampOf(2)}

InitBmr ==
    /\ StorageInit
    /\ \E sw \in {0, 80}, wu \in WeightUnits :
           user = NewUser(sw, wu, None, NoneStr, None, "cm", 120)
    /\ today = 1
    /\ next_id = 1
    /\ HassIdle

NextBmr ==
    \/ \E x \in Sexes : set_sex(x)
    \/ \E y \in BirthYears : set_birth_year(y)
    \/ \E h \in Heights : set_height(h)
    \/ \E u \in HeightUnits : set_height_unit(u)
    \/ \E u \in WeightUnits : update_weight_unit(u)
    \/ \E v \in BmrWeights, d \in BmrLogDates : async_log_weight(v, d)
    \/ \E p \in BmrBodyFats, d \in BmrLogDates : async_log_body_fat_pct(p, d)

SpecBmr == InitBmr /\ [][NextBmr]_vars

\* ------------------------------------------------------ goals and targets
\* Goal type and goal_value as passed to add_goal (thousandths): the six known
\* types, a deficit and a cut of 0, and two types outside the six.
GoalArgs ==
    {<<"fixed_intake", 2000400>>, <<"fixed_net_calories", 1800000>>,
     <<"fixed_deficit", 500000>>, <<"fixed_surplus", 300000>>,
     <<"variable_cut", 1004>>, <<"variable_bulk", 500>>,
     <<"fixed_deficit", 0>>, <<"variable_cut", 0>>,
     <<"maintain", 2100000>>, <<"variable_maintain", 2000>>}
GoalDates == {DateOf(1), TimestampOf(2)}
TargetWeights == {180, 200}
TargetBodyFats == {3876}
Neats == {120, 125}

InitTarget ==
    /\ StorageInit
    /\ \E wu \in WeightUnits : user = NewUser(180, wu, None, NoneStr, 180, "cm", 125)
    /\ today = 1
    /\ next_id = 1
    /\ HassIdle

NextTarget ==
    \/ \E g \in GoalArgs, d \in GoalDates : add_goal(g[1], g[2], d)
    \/ set_sex("male")
    \/ \E n \in Neats : set_neat(n)
    \/ \E v \in TargetWeights : async_log_weight(v, DateOf(2))
    \/ \E p \in TargetBodyFats : async_log_body_fat_pct(p, DateOf(1))
    \/ AdvanceDay

SpecTarget == InitTarget /\ [][NextTarget]_vars

\* ------------------------------------------------- consumption and remainder
RemainingGoalArgs ==
    {<<"fixed_intake", 2000000>>, <<"fixed_deficit", 500000>>,
     <<"variable_cut", 1000>>, <<"fixed_deficit", 0>>, <<"maintain", 2100000>>}
FoodCalories == {300, 2500}
ExerciseCalories == {200}

InitRemaining ==
    /\ StorageInit
    /\ \E x \in {NoneStr, "male"} : user = NewUser(180, "lbs", None, x, 180, "cm", 120)
    /\ today = 2
    /\ next_id = 1
    /\ HassIdle

NextRemaining ==
    \/ \E g \in RemainingGoalArgs, d \in {DateOf(1), DateOf(2)} : add_goal(g[1], g[2], d)
    \/ \E c \in FoodCalories, ts \in {NoDate, DateOf(1)} : async_log_food(c, ts)
    \/ \E c \in ExerciseCalories, ts \in {NoDate, SpaceTimestampOf(1)} :
           async_log_exercise(c, ts)

SpecRemaining == InitRemaining /\ [][NextRemaining]_vars

\* ------------------------------------------------------ services by name
\* A config entry of the integration: its id, data[SPOKEN_NAME] and its state
\* ("LOADED" or "NOT_LOADED").
NoEntry == [entry_id |-> NoneStr, spoken_name |-> NoneStr, state |-> NoneStr]

\* hass.config_entries.async_get_entry(entry_id)
async_get_entry(entry_id) ==
    IF \E i \in 1..Len(config_entries) : config_entries[i].entry_id = entry_id
    THEN config_entries[CHOOSE i \in 1..Len(config_entries) :
                            config_entries[i].entry_id = entry_id]
    ELSE NoEntry

\* The first entry of async_entries(DOMAIN) whose
\* data.get(SPOKEN_NAME).lower() == spoken_name.lower(), None without one.
first_entry_named(spoken_name) ==
    LET matches == {i \in 1..Len(config_entries) :
                        lower(config_entries[i].spoken_name) = lower(spoken_name)}
    IN  IF matches = {} THEN NoEntry
        ELSE config_entries[CHOOSE i \in matches : \A j \in matches : i <= j]

\* _get_entry_for_spoken_name: the entry it returns and the cache it leaves.
get_entry_for_spoken_name(spoken_name) ==
    LET spoken_lower == lower(spoken_name)
        cached == spoken_lower \in DOMAIN SPOKEN_NAME_CACHE
        entry == IF cached THEN async_get_entry(SPOKEN_NAME_CACHE[spoken_lower])
                 ELSE NoEntry
        popped == [k \in (DOMAIN SPOKEN_NAME_CACHE) \ {spoken_lower} |->
                       SPOKEN_NAME_CACHE[k]]
        found == first_entry_named(spoken_name)
    IN  IF cached /\ entry # NoEntry /\ entry.state = "LOADED"
        THEN [entry |-> entry, cache |-> SPOKEN_NAME_CACHE]
        ELSE IF found # NoEntry /\ found.state = "LOADED"
        THEN [entry |-> found, cache |-> DictSet(popped, spoken_lower, found.entry_id)]
        ELSE [entry |-> found, cache |-> popped]

\* The stored collections of one user.
NewRuntimeData ==
    [food_entries |-> <<>>, exercise_entries |-> <<>>, weights |-> EmptyDict,
     body_fat_pcts |-> EmptyDict, goals |-> EmptyDict]

\* What a service's handler does to the user u of the entry it resolved, no
\* timestamp given: sensor.user.async_log_food(food_item, 300),
\* async_log_exercise(calories_burned=200), async_log_weight(180),
\* async_log_body_fat_pct(20.0); fetch_data only reads.  An entry's id is
\* uuid4().hex, here a number no entry of the user holds.
Services == {"log_food", "log_exercise", "log_weight", "log_body_fat", "fetch_data"}

service_effect(service, u) ==
    LET id == Len(u.food_entries) + Len(u.exercise_entries) + 1
        timestamp == normalize_local_timestamp(NoDate)
    IN  CASE service = "log_food" ->
                [u EXCEPT !.food_entries =
                    Append(@, [id |-> id, timestamp |-> timestamp, calories |-> 300])]
          [] service = "log_exercise" ->
                [u EXCEPT !.exercise_entries =
                    Append(@, [id |-> id, timestamp |-> timestamp,
                               calories_burned |-> 200])]
          [] service = "log_weight" ->
                [u EXCEPT !.weights = DictSet(@, LogKey(NoDate), 180)]
          [] service = "log_body_fat" ->
                [u EXCEPT !.body_fat_pcts = DictSet(@, LogKey(NoDate), 2000)]
          [] service = "fetch_data" -> u

\* The number of records all users of the services hold; it stays within
\* MaxEntries.
Stored(data) ==
    SeqSum([i \in 1..Len(config_entries) |->
        LET u == data[config_entries[i].entry_id]
        IN  Len(u.food_entries) + Len(u.exercise_entries)
            + Cardinality(DOMAIN u.weights) + Cardinality(DOMAIN u.body_fat_pcts)])

\* The part the five handlers share after the lookup: raise
\* ServiceValidationError before any user is touched when the entry is missing
\* or not loaded, else work on the entry's user.
handle_service(service, spoken_name, matching_entry) ==
    IF matching_entry = NoEntry \/ matching_entry.state # "LOADED"
    THEN /\ service_response' = [service |-> service, spoken_name |-> spoken_name,
                                 raised |-> "ServiceValidationError",
                                 entry_id |-> NoneStr]
         /\ UNCHANGED runtime_data
    ELSE /\ runtime_data' =
                [runtime_data EXCEPT ![matching_entry.entry_id] =
                    service_effect(service, @)]
         /\ Stored(runtime_data') <= MaxEntries
         /\ service_response' = [service |-> service, spoken_name |-> spoken_name,
                                 raised |-> NoneStr,
                                 entry_id |-> matching_entry.entry_id]

user_frame ==
    UNCHANGED <<weights, body_fat_pcts, goals, food_entries, exercise_entries,
                store, user, today, next_id>>

\* The handlers async_setup registers: each searches the entries by name.
setup_service(service, spoken_name) ==
    /\ handle_service(service, spoken_name, first_entry_named(spoken_name))
    /\ UNCHANGED <<config_entries, SPOKEN_NAME_CACHE>>
    /\ user_frame
    /\ UNCHANGED <<peloton_vars, task_vars>>

\* The handlers of services.py: each resolves the name through the cache.
services_service(service, spoken_name) ==
    LET resolved == get_entry_for_spoken_name(spoken_name)
    IN  /\ SPOKEN_NAME_CACHE' = resolved.cache
        /\ handle_service(service, spoken_name, resolved.entry)
        /\ UNCHANGED config_entries
        /\ user_frame
        /\ UNCHANGED <<peloton_vars, task_vars>>

\* websocket_update_profile with a spoken_name: async_update_entry writes the
\* name into the entry's data; no other entry's name is looked at.
update_profile_spoken_name(i, spoken_name) ==
    /\ config_entries' = [config_entries EXCEPT ![i].spoken_name = spoken_name]
    /\ service_response' = NoResponse
    /\ UNCHANGED <<SPOKEN_NAME_CACHE, runtime_data>>
    /\ user_frame
    /\ UNCHANGED <<peloton_vars, task_vars>>

\* async_setup_entry: the user's collections are those its store holds, which
\* every logging method has saved.
async_setup_entry(i) ==
    /\ config_entries[i].state = "NOT_LOADED"
    /\ config_entries' = [config_entries EXCEPT ![i].state = "LOADED"]
    /\ service_response' = NoResponse
    /\ UNCHANGED <<SPOKEN_NAME_CACHE, runtime_data>>
    /\ user_frame
    /\ UNCHANGED <<peloton_vars, task_vars>>

async_unload_entry(i) ==
    /\ config_entries[i].state = "LOADED"
    /\ config_entries' = [config_entries EXCEPT ![i].state = "NOT_LOADED"]
    /\ service_response' = NoResponse
    /\ UNCHANGED <<SPOKEN_NAME_CACHE, runtime_data>>
    /\ user_frame
    /\ UNCHANGED <<peloton_vars, task_vars>>

SpokenNames == {"Alice", "Bob"}
CalledNames == {"alice", "Alice", "bob"}

InitServices ==
    /\ StorageInit
    /\ user = DefaultUser
    /\ today = 1
    /\ next_id = 1
    /\ config_entries =
           <<[entry_id |-> "entry_1", spoken_name |-> "Alice", state |-> "LOADED"],
             [entry_id |-> "entry_2", spoken_name |-> "Bob", state |-> "LOADED"]>>
    /\ SPOKEN_NAME_CACHE = [k \in {} |-> NoneStr]
    /\ runtime_data = [e \in {"entry_1", "entry_2"} |-> NewRuntimeData]
    /\ service_response = NoResponse
    /\ PelotonIdle
    /\ TasksIdle

NextServices ==
    \/ \E service \in Services, n \in CalledNames : setup_service(service, n)
    \/ \E service \in Services, n \in CalledNames : services_service(service, n)
    \/ \E i \in 1..Len(config_entries), n \in SpokenNames :
           update_profile_spoken_name(i, n)
    \/ \E i \in 1..Len(config_entries) : async_setup_entry(i)
    \/ \E i \in 1..Len(config_entries) : async_unload_entry(i)

SpecServices == InitServices /\ [][NextServices]_vars

\* ------------------------------------------------- entries and their ids
\* The operations that change the stored collections; at most MaxIds ids are
\* ever handed out.  The
\* "entry" of an update_entry message is any dict: with the id of the entry it
\* replaces, with another id, or without "id".
MaxIds == 3
EntryTypes == {"food", "exercise"}
MessageIds == {None} \cup 1..MaxIds
FoodMessages ==
    {[id |-> i, timestamp |-> TimestampOf(1), calories |-> 500] : i \in MessageIds}
ExerciseMessages ==
    {[id |-> i, timestamp |-> TimestampOf(1), calories_burned |-> 100] :
        i \in MessageIds}

InitEntries ==
    /\ StorageInit
    /\ user = DefaultUser
    /\ today = 1
    /\ next_id = 1
    /\ HassIdle

NextEntries ==
    \/ next_id <= MaxIds /\ async_log_food(300, NoDate)
    \/ next_id <= MaxIds /\ async_log_exercise(200, NoDate)
    \/ \E i \in 1..MaxIds, m \in FoodMessages : update_entry("food", i, m)
    \/ \E i \in 1..MaxIds, m \in ExerciseMessages : update_entry("exercise", i, m)
    \/ \E t \in EntryTypes, i \in 1..MaxIds : delete_entry(t, i)
    \/ async_log_weight(180, NoDate)
    \/ async_log_body_fat_pct(2000, NoDate)
    \/ add_goal("fixed_intake", 2000000, NoDate)
    \/ async_clear_goals

SpecEntries == InitEntries /\ [][NextEntries]_vars

\* ------------------------------------------------- the profile over time
\* async_step_neat: the value the flow accepts into the entry's data
\* (hundredths), "1.0 <= neat_value <= 2.0".
async_step_neat(neat_value) ==
    neat_value # None /\ 100 <= neat_value /\ neat_value <= 200

\* websocket_update_profile for the fields sex, birth_year, height and
\* activity_multiplier, a field left out being None: the fields given go into
\* the entry's data and, through the setters, into the user.  The command's
\* schema takes any int or float as activity_multiplier.
websocket_update_profile(sex, birth_year, height, activity_multiplier) ==
    /\ sex # NoneStr \/ birth_year # None \/ height # None
          \/ activity_multiplier # None
    /\ config_entries' =
           [config_entries EXCEPT ![1] =
               [@ EXCEPT !.sex = IF sex # NoneStr THEN sex ELSE @,
                         !.birth_year = IF birth_year # None THEN birth_year ELSE @,
                         !.height = IF height # None THEN height ELSE @,
                         !.neat = IF activity_multiplier # None
                                  THEN activity_multiplier ELSE @]]
    /\ user' = [user EXCEPT
                   !.sex = IF sex # NoneStr THEN sex ELSE @,
                   !.birth_year = IF birth_year # None THEN birth_year ELSE @,
                   !.height = IF height # None THEN height ELSE @,
                   !.neat = IF activity_multiplier # None
                            THEN activity_multiplier ELSE @]
    /\ UNCHANGED <<storage_vars, today, next_id>>
    /\ UNCHANGED <<SPOKEN_NAME_CACHE, runtime_data, service_response, peloton_vars, task_vars>>

\* Multipliers a form or a message can carry: 0.5, 1.0, 1.2, 1.5, 2.0, 2.5, 3.
NeatInputs == {50, 100, 120, 150, 200, 250, 300}

\* The entry the config flow creates, and a user with the constructor's
\* default neat of 1.2.
InitProfile ==
    /\ StorageInit
    /\ \E neat_value \in NeatInputs :
          /\ async_step_neat(neat_value)
          /\ config_entries =
                 <<[entry_id |-> "entry_1", spoken_name |-> "Alice",
                    state |-> "LOADED", sex |-> NoneStr, birth_year |-> None,
                    height |-> None, neat |-> neat_value]>>
    /\ user = NewUser(175, "lbs", None, NoneStr, None, "cm", 120)
    /\ today = 1
    /\ next_id = 1
    /\ SPOKEN_NAME_CACHE = [k \in {} |-> NoneStr]
    /\ runtime_data = <<>>
    /\ service_response = NoResponse
    /\ PelotonIdle
    /\ TasksIdle

NextProfile ==
    \E sex \in {NoneStr, "male", "female"}, birth_year \in {None, 1994},
       height \in {None, 180}, activity_multiplier \in {None} \cup NeatInputs :
        websocket_update_profile(sex, birth_year, height, activity_multiplier)

SpecProfile == InitProfile /\ [][NextProfile]_vars

\* ------------------------------------------------- the keys of the logs
\* LogWeight intent: a date of ten characters gets the time of day appended
\* before it is handed to async_log_weight.
intent_log_weight(weight, date_str) ==
    async_log_weight(weight,
        IF date_str # NoDate /\ date_str.form = "date"
        THEN TimestampOf(date_str.day) ELSE date_str)

\* websocket_create_entry with entry_type "body_fat": the date of a timestamp
\* with "T", else None.
websocket_create_entry_body_fat(body_fat_percentage, timestamp) ==
    async_log_body_fat_pct(body_fat_percentage,
        IF timestamp # NoDate /\ HasT(timestamp) THEN SplitT(timestamp) ELSE NoDate)

\* websocket_save_goals: async_clear_goals, then add_goal for each goal of the
\* message in turn, each with the save of storage.add_goal; start_date is
\* passed on as it came.
RECURSIVE AddGoals(_, _)
AddGoals(stored, message_goals) ==
    IF message_goals = <<>> THEN stored
    ELSE LET goal == Head(message_goals)
             goal_value_store ==
                 IF goal.goal_type \in {"variable_cut", "variable_bulk"}
                 THEN RoundHalfEven(goal.goal_value, 10)
                 ELSE 100 * RoundHalfEven(goal.goal_value, 1000)
         IN  AddGoals(DictSet(stored, goal.start_date,
                              [goal_type |-> goal.goal_type,
                               goal_value |-> goal_value_store]),
                      Tail(message_goals))

websocket_save_goals_without_clear(message_goals) ==
    /\ goals' = AddGoals(goals, message_goals)
    /\ UNCHANGED <<weights, body_fat_pcts, food_entries, exercise_entries>>
    /\ async_save
    /\ UNCHANGED <<user, today, next_id, hass_vars>>

websocket_save_goals(message_goals) ==
    /\ goals' = AddGoals(EmptyDict, message_goals)
    /\ UNCHANGED <<weights, body_fat_pcts, food_entries, exercise_entries>>
    /\ async_save
    /\ UNCHANGED <<user, today, next_id, hass_vars>>

\* Dates as callers write them, and the goals of a save_goals message.
KeyArgs == {NoDate, DateOf(1), TimestampOf(1), SpaceTimestampOf(2)}
MessageGoals ==
    {[goal_type |-> "fixed_intake", goal_value |-> 2000000, start_date |-> d] :
        d \in KeyArgs \ {NoDate}}
GoalMessages ==
    {<<>>} \cup {<<g>> : g \in MessageGoals}
        \cup {<<g, h>> : g \in MessageGoals, h \in MessageGoals}

InitKeys ==
    /\ StorageInit
    /\ user = DefaultUser
    /\ today = 2
    /\ next_id = 1
    /\ HassIdle

NextKeys ==
    \/ \E d \in KeyArgs : async_log_weight(180, d)
    \/ \E d \in KeyArgs : intent_log_weight(170, d)
    \/ \E d \in KeyArgs : async_log_body_fat_pct(2000, d)
    \/ \E ts \in KeyArgs : websocket_create_entry_body_fat(3000, ts)
    \/ \E m \in GoalMessages : websocket_save_goals(m)
    \/ add_goal("fixed_intake", 1800000, NoDate)

SpecKeys == InitKeys /\ [][NextKeys]_vars

\* ------------------------------------------------- migration of an entry
\* CalorieConfigFlow.VERSION
VERSION == 6

\* The keys async_migrate_entry adds when they are missing.
MigrationKeys ==
    {"weight_unit", "include_exercise_in_net", "birth_year", "sex", "height",
     "height_unit", "body_fat_pct", "preferred_image_analyzer"}

\* async_migrate_entry on an entry of the given version whose data has the
\* given keys (the values added are defaults): what it returns, and the version
\* and keys it leaves.  config_entry.version is read as it was on entry
\* throughout.
migrate_entry(version, data) ==
    IF version > 4 THEN [result |-> FALSE, version |-> version, data |-> data]
    ELSE LET data_2 == IF version = 1
                       THEN data \cup {"weight_unit", "include_exercise_in_net"}
                       ELSE data
             target_2 == IF version = 1 THEN 2 ELSE version
             data_3 == IF version <= 2 THEN data_2 \cup {"include_exercise_in_net"}
                       ELSE data_2
             target_3 == IF version <= 2 THEN 3 ELSE target_2
             data_4 == IF version <= 3
                       THEN data_3 \cup {"birth_year", "sex", "height",
                                         "height_unit", "body_fat_pct"}
                       ELSE data_3
             target_4 == IF version <= 3 THEN 4 ELSE target_3
             new_data == data_4 \cup {"preferred_image_analyzer"}
         IN  [result |-> TRUE, version |-> target_4, data |-> new_data]

async_migrate_entry ==
    LET migrated == migrate_entry(config_entries[1].version, config_entries[1].data)
    IN  /\ service_response = NoResponse
        /\ config_entries' = [config_entries EXCEPT ![1].version = migrated.version,
                                                    ![1].data = migrated.data]
        /\ service_response' = [service |-> "async_migrate_entry",
                                result |-> migrated.result]
        /\ UNCHANGED <<SPOKEN_NAME_CACHE, runtime_data>>
        /\ user_frame
        /\ UNCHANGED <<peloton_vars, task_vars>>

\* An entry of any version older than the flow's, its data holding the name
\* and any of the keys later versions brought.
InitMigrate ==
    /\ StorageInit
    /\ user = DefaultUser
    /\ today = 1
    /\ next_id = 1
    /\ \E version \in 1..(VERSION - 1), keys \in SUBSET MigrationKeys :
           config_entries = <<[entry_id |-> "entry_1", version |-> version,
                               data |-> {"spoken_name"} \cup keys]>>
    /\ SPOKEN_NAME_CACHE = [k \in {} |-> NoneStr]
    /\ runtime_data = <<>>
    /\ service_response = NoResponse
    /\ PelotonIdle
    /\ TasksIdle

NextMigrate == async_migrate_entry

SpecMigrate == InitMigrate /\ [][NextMigrate]_vars

\* ------------------------------------------------- reading goals and targets
\* A call of get_goal and of calculate_daily_goal_calories with what it
\* returns; both go through storage.get_goal for the date.
call_get_goal(date_str) ==
    /\ service_response' = [service |-> "get_goal", date |-> date_str,
                            result |-> get_goal(date_str)]
    /\ goals' = storage_goals_after_get_goal(
                    IF date_str = NoDate THEN isoformat(today) ELSE date_str)
    /\ UNCHANGED <<weights, body_fat_pcts, food_entries, exercise_entries, store>>
    /\ UNCHANGED <<user, today, next_id>>
    /\ UNCHANGED <<config_entries, SPOKEN_NAME_CACHE, runtime_data, peloton_vars, task_vars>>

call_calculate_daily_goal_calories(date_str) ==
    /\ service_response' = [service |-> "calculate_daily_goal_calories",
                            date |-> date_str,
                            result |-> calculate_daily_goal_calories(date_str)]
    /\ goals' = storage_goals_after_get_goal(
                    IF date_str = NoDate THEN isoformat(today) ELSE date_str)
    /\ UNCHANGED <<weights, body_fat_pcts, food_entries, exercise_entries, store>>
    /\ UNCHANGED <<user, today, next_id>>
    /\ UNCHANGED <<config_entries, SPOKEN_NAME_CACHE, runtime_data, peloton_vars, task_vars>>

\* What a call of the named method returns in the current state.
Returned(service, date_str) ==
    IF service = "get_goal" THEN get_goal(date_str)
    ELSE calculate_daily_goal_calories(date_str)

ReadGoalArgs ==
    {<<"fixed_intake", 2000400>>, <<"fixed_deficit", 500000>>,
     <<"variable_cut", 1004>>}
ReadDates == {NoDate, DateOf(1), TimestampOf(2), DateOf(3)}

InitReads ==
    /\ StorageInit
    /\ user = NewUser(180, "lbs", None, "male", 180, "cm", 125)
    /\ today = 2
    /\ next_id = 1
    /\ HassIdle

NextReads ==
    \/ \E g \in ReadGoalArgs, d \in {DateOf(2), TimestampOf(2)} :
           add_goal(g[1], g[2], d)
    \/ async_log_weight(200, DateOf(3))
    \/ \E d \in ReadDates : call_get_goal(d)
    \/ \E d \in ReadDates : call_calculate_daily_goal_calories(d)

SpecReads == InitReads /\ [][NextReads]_vars

\* ---------------------------------------------------- the Peloton listener
MaxWorkouts == 2
MaxPolls == 3

\* _extract_calories_from_workout: the calories the workout reports. Each
\* workout reports its own, so an exercise entry tells the workout it is of.
extract_calories_from_workout(workout) == 100 * workout.id

\* What Peloton does between polls: a workout begins once the one before it is
\* complete, and the one in progress completes.
workout_starts ==
    /\ peloton_latest.status # "IN_PROGRESS"
    /\ peloton_latest.id < MaxWorkouts
    /\ peloton_latest' = [id |-> IF peloton_latest = NoWorkout THEN 1
                                 ELSE peloton_latest.id + 1,
                          status |-> "IN_PROGRESS"]
    /\ UNCHANGED <<storage_vars, user, today, next_id>>
    /\ UNCHANGED <<config_entries, SPOKEN_NAME_CACHE, runtime_data, service_response>>
    /\ UNCHANGED task_vars
    /\ UNCHANGED <<hass_data, poll_runs>>

workout_completes ==
    /\ peloton_latest.status = "IN_PROGRESS"
    /\ peloton_latest' = [peloton_latest EXCEPT !.status = "COMPLETE"]
    /\ UNCHANGED <<storage_vars, user, today, next_id>>
    /\ UNCHANGED <<config_entries, SPOKEN_NAME_CACHE, runtime_data, service_response>>
    /\ UNCHANGED task_vars
    /\ UNCHANGED <<hass_data, poll_runs>>

\* _poll_latest_workout_callback: the 90-second timer adds a run of
\* poll_latest_workout to the loop, whatever the earlier runs are doing; the run
\* goes as far as its first await, the fetch.
poll_latest_workout_callback ==
    /\ Len(poll_runs) < MaxPolls
    /\ poll_runs' = Append(poll_runs, [pc |-> "fetch", workout |-> NoWorkout])
    /\ UNCHANGED <<storage_vars, user, today, next_id>>
    /\ UNCHANGED <<config_entries, SPOKEN_NAME_CACHE, runtime_data, service_response>>
    /\ UNCHANGED task_vars
    /\ UNCHANGED <<hass_data, peloton_latest>>

\* get_latest_peloton_workout: the executor job asks Peloton for the latest
\* workout; the run is resumed with it later.
get_latest_peloton_workout(run) ==
    /\ poll_runs[run].pc = "fetch"
    /\ poll_runs' = [poll_runs EXCEPT ![run] = [pc |-> "fetched",
                                                workout |-> peloton_latest]]
    /\ UNCHANGED <<storage_vars, user, today, next_id>>
    /\ UNCHANGED <<config_entries, SPOKEN_NAME_CACHE, runtime_data, service_response>>
    /\ UNCHANGED task_vars
    /\ UNCHANGED <<hass_data, peloton_latest>>

\* The test of the run resumed after the fetch: there is a workout, it is
\* COMPLETE, and it is not the last one logged.
poll_would_skip(workout) ==
    \/ workout = NoWorkout
    \/ workout.status # "COMPLETE"
    \/ hass_data = workout.id

\* poll_latest_workout from the fetched workout to its next await: it returns,
\* or it calls user.async_log_exercise, which appends the entry and awaits the
\* save.
poll_latest_workout_resumed(run) ==
    LET workout == poll_runs[run].workout
    IN  /\ poll_runs[run].pc = "fetched"
        /\ IF poll_would_skip(workout)
           THEN /\ poll_runs' = [poll_runs EXCEPT ![run].pc = "done"]
                /\ UNCHANGED <<exercise_entries, next_id>>
           ELSE /\ exercise_entries' =
                       Append(exercise_entries,
                              [id |-> next_id,
                               timestamp |->
                                   normalize_local_timestamp(TimestampOf(today)),
                               calories_burned |->
                                   extract_calories_from_workout(workout)])
                /\ next_id' = next_id + 1
                /\ poll_runs' = [poll_runs EXCEPT ![run].pc = "save"]
        /\ UNCHANGED <<weights, body_fat_pcts, goals, food_entries, store>>
        /\ UNCHANGED <<user, today>>
        /\ UNCHANGED <<config_entries, SPOKEN_NAME_CACHE, runtime_data, service_response>>
        /\ UNCHANGED task_vars
        /\ UNCHANGED <<hass_data, peloton_latest>>

\* The save is done: the run writes the workout's id as the last one logged.
poll_latest_workout_saved(run) ==
    /\ poll_runs[run].pc = "save"
    /\ UNCHANGED <<weights, body_fat_pcts, goals, food_entries, exercise_entries>>
    /\ async_save
    /\ hass_data' = poll_runs[run].workout.id
    /\ poll_runs' = [poll_runs EXCEPT ![run].pc = "done"]
    /\ UNCHANGED <<user, today, next_id>>
    /\ UNCHANGED <<config_entries, SPOKEN_NAME_CACHE, runtime_data, service_response>>
    /\ UNCHANGED task_vars
    /\ UNCHANGED peloton_latest

\* setup_peloton_listener: the last logged id starts as the id of the latest
\* workout when that one is COMPLETE, as None otherwise.
InitPeloton ==
    /\ StorageInit
    /\ user = DefaultUser
    /\ today = 1
    /\ next_id = 1
    /\ config_entries = <<>>
    /\ SPOKEN_NAME_CACHE = [k \in {} |-> NoneStr]
    /\ runtime_data = <<>>
    /\ service_response = NoResponse
    /\ peloton_latest \in {NoWorkout, [id |-> 1, status |-> "IN_PROGRESS"],
                           [id |-> 1, status |-> "COMPLETE"]}
    /\ hass_data = IF peloton_latest.status = "COMPLETE" THEN peloton_latest.id
                   ELSE None
    /\ poll_runs = <<>>
    /\ TasksIdle

NextPeloton ==
    \/ workout_starts
    \/ workout_completes
    \/ poll_latest_workout_callback
    \/ \E run \in 1..Len(poll_runs) : get_latest_peloton_workout(run)
    \/ \E run \in 1..Len(poll_runs) : poll_latest_workout_resumed(run)
    \/ \E run \in 1..Len(poll_runs) : poll_latest_workout_saved(run)

SpecPeloton == InitPeloton /\ [][NextPeloton]_vars

\* ------------------------------------------------- the names of the entries
MaxConfigEntries == 3

\* str.strip() on the names used here.
strip(str) == IF str = " Alice " THEN "Alice" ELSE str

EntryIdOf(k) == CASE k = 1 -> "entry_1" [] k = 2 -> "entry_2" [] OTHER -> "entry_3"

\* The test of async_step_user: an entry whose name, stripped and lowered, is
\* the stripped and lowered name of the form.
friendly_name_configured(spoken_name) ==
    \E i \in 1..Len(config_entries) :
        lower(strip(config_entries[i].spoken_name)) = lower(strip(spoken_name))

\* A config flow from the user step to async_create_entry: it aborts on a
\* configured name, else the entry is added with the name as typed and set up.
async_step_user(spoken_name) ==
    /\ Len(config_entries) < MaxConfigEntries
    /\ IF friendly_name_configured(spoken_name)
       THEN /\ service_response' = [service |-> "async_step_user",
                                    spoken_name |-> spoken_name,
                                    raised |-> "friendly_name_configured",
                                    entry_id |-> NoneStr]
            /\ UNCHANGED config_entries
       ELSE /\ config_entries' =
                   Append(config_entries,
                          [entry_id |-> EntryIdOf(Len(config_entries) + 1),
                           spoken_name |-> spoken_name, state |-> "LOADED"])
            /\ service_response' = NoResponse
    /\ UNCHANGED <<SPOKEN_NAME_CACHE, runtime_data>>
    /\ user_frame
    /\ UNCHANGED <<peloton_vars, task_vars>>

FlowNames == {"Alice", "alice", " Alice ", "Bob"}

InitNames ==
    /\ StorageInit
    /\ user = DefaultUser
    /\ today = 1
    /\ next_id = 1
    /\ HassIdle

NextNames ==
    \/ \E n \in FlowNames : async_step_user(n)
    \/ \E i \in 1..Len(config_entries), n \in FlowNames :
           update_profile_spoken_name(i, n)
    \/ \E i \in 1..Len(config_entries) : async_unload_entry(i)
    \/ \E i \in 1..Len(config_entries) : async_setup_entry(i)

SpecNames == InitNames /\ [][NextNames]_vars

\* ------------------------------------------------------- the voice intents
\* LogCalories and GetRemainingCalories, the daily_calorie_goal of their
\* answer: the same lines in both handlers.
intent_daily_calorie_goal(log_date) ==
    LET goal == get_goal(log_date)
        goal_type == IF goal # NoGoal THEN goal.goal_type ELSE "fixed_intake"
        goal_value == IF goal # NoGoal THEN goal.goal_value ELSE 0
        weight == IF get_weight(log_date) = None THEN 0 ELSE get_weight(log_date)
        bmr == calculate_bmr(log_date)
        bmr_and_neat == IF bmr = None THEN 0
                        ELSE FxRound(bmr_baseline(bmr, get_neat))
        cal_per_weight == IF get_weight_unit = "kg" THEN 7700 ELSE 3500
        \* weight * percent / 7.0 * cal_per_weight, as a fraction over 70000
        per_day_delta == weight * goal_value * cal_per_weight
    IN  IF goal_type \in {"fixed_intake", "fixed_net_calories"}
        THEN FxRound(FxFrac(goal_value, 100))
        ELSE IF goal_type = "fixed_deficit"
        THEN FxRound(FxSub(FxInt(bmr_and_neat), FxFrac(goal_value, 100)))
        ELSE IF goal_type = "fixed_surplus"
        THEN FxRound(FxAdd(FxInt(bmr_and_neat), FxFrac(goal_value, 100)))
        ELSE IF goal_type \in {"variable_cut", "variable_bulk"}
        THEN RoundHalfEven(70000 * bmr_and_neat - per_day_delta, 70000)
        ELSE FxRound(FxFrac(goal_value, 100))

\* remaining_calories of the answer: the goal less the food of the day, the
\* exercise taken off the food for every goal type but fixed_intake.
intent_remaining_calories(log_date) ==
    LET log == get_log(log_date)
        goal == get_goal(log_date)
        goal_type == IF goal # NoGoal THEN goal.goal_type ELSE "fixed_intake"
        calories_today == IF goal_type = "fixed_intake" THEN log.food
                          ELSE log.food - log.exercise
    IN  intent_daily_calorie_goal(log_date) - calories_today

IntentGoalArgs ==
    {<<"fixed_intake", 2000000>>, <<"variable_cut", 1000>>, <<"variable_bulk", 500>>}

InitIntent ==
    /\ StorageInit
    /\ \E wu \in WeightUnits : user = NewUser(180, wu, None, "male", 180, "cm", 120)
    /\ today = 2
    /\ next_id = 1
    /\ HassIdle

NextIntent ==
    \/ \E g \in IntentGoalArgs, d \in {DateOf(1), DateOf(2)} : add_goal(g[1], g[2], d)
    \/ \E v \in TargetWeights : async_log_weight(v, DateOf(2))
    \/ \E c \in FoodCalories : async_log_food(c, NoDate)
    \/ \E c \in ExerciseCalories : async_log_exercise(c, NoDate)

SpecIntent == InitIntent /\ [][NextIntent]_vars

\* ------------------------------------------------- saving the list of goals
MaxGoals == 2

\* The goals of a save_goals message: two kinds of goal for each of two
\* start dates, and the lists of up to MaxGoals of them.
SaveGoals ==
    {[goal_type |-> g[1], goal_value |-> g[2], start_date |-> d] :
        g \in {<<"fixed_intake", 2000400>>, <<"variable_cut", 1004>>},
        d \in {DateOf(1), TimestampOf(2)}}
SaveGoalsMessages ==
    UNION {[1..n -> SaveGoals] : n \in 0..MaxGoals}

InitSaveGoals ==
    /\ StorageInit
    /\ user = DefaultUser
    /\ today = 2
    /\ next_id = 1
    /\ HassIdle

NextSaveGoals ==
    \/ \E m \in SaveGoalsMessages : websocket_save_goals(m)
    \/ add_goal("fixed_deficit", 500000, DateOf(3))
    \/ \E v \in TargetWeights, d \in {DateOf(1), DateOf(2)} : async_log_weight(v, d)

SpecSaveGoals == InitSaveGoals /\ [][NextSaveGoals]_vars

\* --------------------------------------------- save_goals, await by await
goal_value_store(goal) ==
    IF goal.goal_type \in {"variable_cut", "variable_bulk"}
    THEN RoundHalfEven(goal.goal_value, 10)
    ELSE 100 * RoundHalfEven(goal.goal_value, 1000)

\* A save_goals coroutine is between its first await and its end.
SaveGoalsInFlight == save_goals_run.pc \in {"clear", "add"}

save_goals_frame ==
    /\ UNCHANGED <<weights, body_fat_pcts, food_entries, exercise_entries>>
    /\ UNCHANGED <<user, today, next_id>>
    /\ UNCHANGED <<config_entries, SPOKEN_NAME_CACHE, runtime_data, service_response>>
    /\ UNCHANGED <<peloton_vars, async_setup_done, services_registered>>
    /\ UNCHANGED <<listener_vars, profile_map_vars>>

\* websocket_save_goals up to its first await: the message is a list of dicts
\* with the three fields, the goals are cleared and the save is awaited.
save_goals_clear(message_goals) ==
    /\ ~SaveGoalsInFlight
    /\ goals' = EmptyDict
    /\ save_goals_run' = [pc |-> "clear", message |-> message_goals, i |-> 0,
                          before |-> goals]
    /\ UNCHANGED store
    /\ save_goals_frame

\* The save awaited is done and the handler goes on to its next await: the
\* save of the next goal's add_goal, the TypeError of float(None) that ends
\* the handler, or the result after the last goal.
save_goals_next ==
    LET run == save_goals_run
        i == run.i + 1
    IN  /\ SaveGoalsInFlight
        /\ store' = [saved |-> TRUE, food_entries |-> food_entries,
                     exercise_entries |-> exercise_entries, weights |-> weights,
                     body_fat_pcts |-> body_fat_pcts, goals |-> goals]
        /\ IF i > Len(run.message)
           THEN /\ save_goals_run' = [run EXCEPT !.pc = "success"]
                /\ UNCHANGED goals
           ELSE IF run.message[i].goal_value = None
           THEN /\ save_goals_run' = [run EXCEPT !.pc = "error"]
                /\ UNCHANGED goals
           ELSE /\ goals' = DictSet(goals, run.message[i].start_date,
                                    [goal_type |-> run.message[i].goal_type,
                                     goal_value |-> goal_value_store(run.message[i])])
                /\ save_goals_run' = [run EXCEPT !.pc = "add", !.i = i]
        /\ save_goals_frame

\* The messages: goals of two kinds for two start dates, and one whose value
\* is null.
AwaitedGoals ==
    SaveGoals \cup {[goal_type |-> "fixed_intake", goal_value |-> None,
                     start_date |-> DateOf(2)]}
AwaitedMessages ==
    UNION {[1..n -> AwaitedGoals] : n \in 0..MaxGoals}

InitAwaited ==
    /\ StorageInit
    /\ user = DefaultUser
    /\ today = 2
    /\ next_id = 1
    /\ HassIdle

NextAwaited ==
    \/ \E m \in AwaitedMessages : save_goals_clear(m)
    \/ save_goals_next
    \/ ~SaveGoalsInFlight /\ add_goal("fixed_deficit", 500000, DateOf(3))

SpecAwaited == InitAwaited /\ [][NextAwaited]_vars

\* ------------------------------------ the component, its entries, services
\* The collections modelled are those of the entry "entry_1".
async_delete_store ==
    /\ store' = [saved |-> FALSE, food_entries |-> <<>>, exercise_entries |-> <<>>,
                 weights |-> EmptyDict, body_fat_pcts |-> EmptyDict,
                 goals |-> EmptyDict]
    /\ food_entries' = <<>>
    /\ exercise_entries' = <<>>
    /\ weights' = EmptyDict
    /\ body_fat_pcts' = EmptyDict
    /\ goals' = EmptyDict

\* async_setup: the five services are registered. The host calls it when it
\* loads the component: once, before the first entry it sets up.
async_setup ==
    /\ async_setup_done' = TRUE
    /\ services_registered' = TRUE

FreeEntryId ==
    EntryIdOf(CHOOSE k \in 1..MaxConfigEntries :
                  \A i \in 1..Len(config_entries) :
                      config_entries[i].entry_id # EntryIdOf(k))

\* A flow that ends in async_create_entry: the host loads the component if it
\* has not yet and sets the entry up; async_setup_entry registers no service.
entry_created(spoken_name) ==
    /\ Len(config_entries) < MaxConfigEntries
    /\ ~friendly_name_configured(spoken_name)
    /\ config_entries' = Append(config_entries,
                                [entry_id |-> FreeEntryId,
                                 spoken_name |-> spoken_name, state |-> "LOADED"])
    /\ IF async_setup_done
       THEN UNCHANGED <<async_setup_done, services_registered>>
       ELSE async_setup
    /\ service_response' = NoResponse
    /\ UNCHANGED <<SPOKEN_NAME_CACHE, runtime_data>>
    /\ user_frame
    /\ UNCHANGED <<peloton_vars, save_goals_run, listener_vars, profile_map_vars>>

RemoveAt(seq, i) == SubSeq(seq, 1, i - 1) \o SubSeq(seq, i + 1, Len(seq))

\* async_remove_entry, which the host calls with the entry taken out of its
\* list: the entry's store is deleted; with no entry left the file of the
\* profile map and the five services are removed.
async_remove_entry(i) ==
    LET remaining_entries == RemoveAt(config_entries, i)
    IN  /\ config_entries' = remaining_entries
        /\ IF config_entries[i].entry_id = EntryIdOf(1)
           THEN async_delete_store
           ELSE UNCHANGED storage_vars
        /\ IF Len(remaining_entries) = 0
           THEN /\ profile_map_store' = [k \in {} |-> NoneStr]
                /\ services_registered' = FALSE
           ELSE UNCHANGED <<profile_map_store, services_registered>>
        /\ service_response' = NoResponse
        /\ UNCHANGED <<user, today, next_id>>
        /\ UNCHANGED <<SPOKEN_NAME_CACHE, runtime_data, peloton_vars>>
        /\ UNCHANGED <<save_goals_run, async_setup_done, listener_vars>>
        /\ UNCHANGED <<profile_map, async_set_runs>>

\* The host starts again: nothing registered is kept; a component with an
\* entry is loaded, async_setup before the entries' async_setup_entry.
homeassistant_start ==
    /\ async_setup_done' = (Len(config_entries) > 0)
    /\ services_registered' = (Len(config_entries) > 0)
    /\ config_entries' = [i \in 1..Len(config_entries) |->
                              [config_entries[i] EXCEPT !.state = "LOADED"]]
    /\ service_response' = NoResponse
    /\ UNCHANGED <<SPOKEN_NAME_CACHE, runtime_data>>
    /\ user_frame
    /\ UNCHANGED <<peloton_vars, save_goals_run, listener_vars, profile_map_vars>>

InitLoaded ==
    /\ StorageInit
    /\ user = DefaultUser
    /\ today = 1
    /\ next_id = 1
    /\ config_entries = <<>>
    /\ SPOKEN_NAME_CACHE = [k \in {} |-> NoneStr]
    /\ runtime_data = <<>>
    /\ service_response = NoResponse
    /\ PelotonIdle
    /\ save_goals_run = NoRun
    /\ async_setup_done = FALSE
    /\ services_registered = FALSE
    /\ linked_profiles = {}
    /\ remove_callbacks = <<>>
    /\ listeners = {}
    /\ profile_map = [k \in {} |-> NoneStr]
    /\ profile_map_store = [k \in {} |-> NoneStr]
    /\ async_set_runs = [k \in {} |-> NoRun]

NextLoaded ==
    \/ \E n \in FlowNames : entry_created(n)
    \/ \E i \in 1..Len(config_entries) : async_remove_entry(i)
    \/ \E i \in 1..Len(config_entries) : async_unload_entry(i)
    \/ \E i \in 1..Len(config_entries) : async_setup_entry(i)
    \/ homeassistant_start
    \/ /\ \E i \in 1..Len(config_entries) :
              /\ config_entries[i].entry_id = EntryIdOf(1)
              /\ config_entries[i].state = "LOADED"
       /\ \E v \in WeightVals : async_log_weight(v, NoDate)

SpecLoaded == InitLoaded /\ [][NextLoaded]_vars

\* ------------------------------------------- the map of users to profiles
HassUserIds == {"user_a", "user_b"}
EmptyMap == [k \in {} |-> NoneStr]

profile_map_frame ==
    /\ UNCHANGED <<storage_vars, user, today, next_id>>
    /\ UNCHANGED <<config_entries, SPOKEN_NAME_CACHE, runtime_data, service_response>>
    /\ UNCHANGED <<peloton_vars, save_goals_run, async_setup_done, services_registered>>
    /\ UNCHANGED listener_vars

AsyncSetInFlight(user_id) ==
    /\ user_id \in DOMAIN async_set_runs
    /\ async_set_runs[user_id].pc # "done"

\* async_set up to its first await. With a map that is not empty the user is
\* set and the map handed to the store, whose later loads see it; with an
\* empty map the load is awaited.
async_set_call(user_id, entry_id) ==
    /\ ~AsyncSetInFlight(user_id)
    /\ IF profile_map # EmptyMap
       THEN /\ profile_map' = DictSet(profile_map, user_id, entry_id)
            /\ profile_map_store' = profile_map'
            /\ async_set_runs' = DictSet(async_set_runs, user_id,
                                         [pc |-> "save", entry_id |-> entry_id,
                                          data |-> EmptyMap])
       ELSE /\ async_set_runs' = DictSet(async_set_runs, user_id,
                                         [pc |-> "load", entry_id |-> entry_id,
                                          data |-> EmptyMap])
            /\ UNCHANGED <<profile_map, profile_map_store>>
    /\ profile_map_frame

\* The store is read for a load that is awaited.
async_load_read(user_id) ==
    /\ AsyncSetInFlight(user_id)
    /\ async_set_runs[user_id].pc = "load"
    /\ async_set_runs' = [async_set_runs EXCEPT ![user_id].pc = "loaded",
                                                 ![user_id].data = profile_map_store]
    /\ UNCHANGED <<profile_map, profile_map_store>>
    /\ profile_map_frame

\* async_set from the end of the load to the await of the save:
\* self._map = data or {}, self._map[user_id] = entry_id, the map is handed to
\* the store.
async_set_loaded(user_id) ==
    /\ AsyncSetInFlight(user_id)
    /\ async_set_runs[user_id].pc = "loaded"
    /\ profile_map' = DictSet(async_set_runs[user_id].data, user_id,
                              async_set_runs[user_id].entry_id)
    /\ profile_map_store' = profile_map'
    /\ async_set_runs' = [async_set_runs EXCEPT ![user_id].pc = "save"]
    /\ profile_map_frame

\* The save awaited is done, and async_set with it.
async_set_saved(user_id) ==
    /\ AsyncSetInFlight(user_id)
    /\ async_set_runs[user_id].pc = "save"
    /\ async_set_runs' = [async_set_runs EXCEPT ![user_id].pc = "done"]
    /\ UNCHANGED <<profile_map, profile_map_store>>
    /\ profile_map_frame

\* What async_get returns when no load or save is under way.
async_get(user_id) ==
    LET map == IF profile_map # EmptyMap THEN profile_map ELSE profile_map_store
    IN  IF user_id \in DOMAIN map THEN map[user_id] ELSE NoneStr

InitProfileMap ==
    /\ StorageInit
    /\ user = DefaultUser
    /\ today = 1
    /\ next_id = 1
    /\ HassIdle

NextProfileMap ==
    \/ \E u \in HassUserIds, k \in 1..MaxConfigEntries : async_set_call(u, EntryIdOf(k))
    \/ \E u \in HassUserIds : async_load_read(u)
    \/ \E u \in HassUserIds : async_set_loaded(u)
    \/ \E u \in HassUserIds : async_set_saved(u)

SpecProfileMap == InitProfileMap /\ [][NextProfileMap]_vars

\* ------------------------------------------------- deleting an entry
\* websocket_delete_entry with what it answers: the storage's scan finds the
\* entry, deletes it and the data is saved (True), finds none or has another
\* entry_type (False), or raises KeyError at an entry without "id".
DeleteTypes == EntryTypes \cup {"weight"}

websocket_delete_entry(entry_type, entry_id) ==
    LET entries == CASE entry_type = "food" -> food_entries
                     [] entry_type = "exercise" -> exercise_entries
                     [] OTHER -> <<>>
        found == find_entry(entries, entry_id, 1)
        deleted == found.idx \in 1..Len(entries)
    IN  /\ IF deleted
           THEN /\ IF entry_type = "food"
                   THEN /\ food_entries' = DelAt(entries, found.idx)
                        /\ UNCHANGED exercise_entries
                   ELSE /\ exercise_entries' = DelAt(entries, found.idx)
                        /\ UNCHANGED food_entries
                /\ UNCHANGED <<weights, body_fat_pcts, goals>>
                /\ async_save
           ELSE UNCHANGED storage_vars
        /\ service_response' = [service |-> "delete_entry", entry_type |-> entry_type,
                                entry_id |-> entry_id, result |-> deleted,
                                raised |-> found.raised]
        /\ UNCHANGED <<user, today, next_id>>
        /\ UNCHANGED <<config_entries, SPOKEN_NAME_CACHE, runtime_data>>
        /\ UNCHANGED <<peloton_vars, task_vars>>

NextDelete ==
    \/ NextEntries
    \/ \E t \in DeleteTypes, i \in 1..MaxIds : websocket_delete_entry(t, i)

SpecDelete == InitEntries /\ [][NextDelete]_vars

\* ------------------------------------------ an entry removed under way
\* The entry "entry_1" is set up; handlers that found it are under way when
\* it is unloaded and removed.
EntryRemoved ==
    \A i \in 1..Len(config_entries) : config_entries[i].entry_id # EntryIdOf(1)

InitRemoved ==
    /\ StorageInit
    /\ user = DefaultUser
    /\ today = 2
    /\ next_id = 1
    /\ config_entries = <<[entry_id |-> EntryIdOf(1), spoken_name |-> "Alice",
                           state |-> "LOADED"]>>
    /\ SPOKEN_NAME_CACHE = [k \in {} |-> NoneStr]
    /\ runtime_data = <<>>
    /\ service_response = NoResponse
    /\ PelotonIdle
    /\ TasksIdle

NextRemoved ==
    \/ ~EntryRemoved /\ \E m \in AwaitedMessages : save_goals_clear(m)
    \/ save_goals_next
    \/ ~EntryRemoved /\ \E v \in WeightVals : async_log_weight(v, NoDate)
    \/ \E i \in 1..Len(config_entries) : async_unload_entry(i)
    \/ \E i \in 1..Len(config_entries) : async_setup_entry(i)
    \/ \E i \in 1..Len(config_entries) : async_remove_entry(i)

SpecRemoved == InitRemoved /\ [][NextRemoved]_vars

\* ------------------------------------------- linking Peloton profiles
\* setup_linked_component_listeners is a coroutine function; async_setup_entry
\* and the link handler call it without await, and the unlink handler calls
\* remove_linked_component_profile without await: a coroutine object is
\* made and its body is not run.
PelotonIds == {"peloton_1", "peloton_2"}
Coroutine == <<"coroutine">>

linked_frame ==
    /\ UNCHANGED <<storage_vars, user, today, next_id>>
    /\ UNCHANGED <<config_entries, SPOKEN_NAME_CACHE, runtime_data, peloton_vars>>
    /\ UNCHANGED <<save_goals_run, async_setup_done, services_registered>>
    /\ UNCHANGED <<remove_callbacks, listeners, profile_map_vars>>

\* websocket_link_discovered_components: a list that is not empty replaces
\* the linked Peloton entries in the options; no listener is set up.
websocket_link_discovered_components(linked_component_entry_ids) ==
    /\ ~EntryRemoved
    /\ linked_profiles' = IF linked_component_entry_ids # {}
                          THEN linked_component_entry_ids ELSE linked_profiles
    /\ service_response' = [service |-> "link_discovered_components",
                            linked |-> linked_component_entry_ids, success |-> TRUE]
    /\ linked_frame

\* websocket_unlink_linked_component: the coroutine object is truthy, so the
\* answer is success; the options are as they were.
websocket_unlink_linked_component(linked_component_entry_id) ==
    /\ ~EntryRemoved
    /\ service_response' = [service |-> "unlink_linked_component",
                            linked |-> {linked_component_entry_id}, success |-> TRUE]
    /\ UNCHANGED linked_profiles
    /\ linked_frame

InitLinked ==
    /\ StorageInit
    /\ user = DefaultUser
    /\ today = 1
    /\ next_id = 1
    /\ config_entries = <<[entry_id |-> EntryIdOf(1), spoken_name |-> "Alice",
                           state |-> "LOADED"]>>
    /\ SPOKEN_NAME_CACHE = [k \in {} |-> NoneStr]
    /\ runtime_data = <<>>
    /\ service_response = NoResponse
    /\ PelotonIdle
    /\ save_goals_run = NoRun
    /\ async_setup_done = TRUE
    /\ services_registered = TRUE
    /\ linked_profiles = {}
    /\ remove_callbacks = Coroutine
    /\ listeners = {}
    /\ profile_map = [k \in {} |-> NoneStr]
    /\ profile_map_store = [k \in {} |-> NoneStr]
    /\ async_set_runs = [k \in {} |-> NoRun]

NextLinked ==
    \/ \E ids \in SUBSET PelotonIds : websocket_link_discovered_components(ids)
    \/ \E p \in PelotonIds : websocket_unlink_linked_component(p)
    \/ \E i \in 1..Len(config_entries) : async_unload_entry(i)
    \/ \E i \in 1..Len(config_entries) : async_setup_entry(i)
    \/ \E i \in 1..Len(config_entries) : async_remove_entry(i)

SpecLinked == InitLinked /\ [][NextLinked]_vars

\* No handler registers a polling listener or makes the callbacks a list.
NoListenerRegistered ==
    /\ listeners = {}
    /\ remove_callbacks = Coroutine

\* ------------------------------------------------------------- properties
\* The greatest and the least key of a non-empty set of keys, in string order.
MaxKey(S) == CHOOSE k \in S : \A j \in S : StrLeq(j, k)
MinKey(S) == CHOOSE k \in S : \A j \in S : StrLeq(k, j)

\* C1: get_goal(date) is None when no goal is stored; otherwise it is the goal
\* stored at the greatest start date <= date, or, when every start date is later
\* than date, the goal stored at the earliest start date; its start_date is the
\* key the goal is stored under.
C1_GetGoalResolves ==
    \A date \in QueryArgs \ {NoDate} :
        LET onOrBefore == {k \in DOMAIN goals : StrLeq(k, date)}
            key == IF onOrBefore # {} THEN MaxKey(onOrBefore) ELSE MinKey(DOMAIN goals)
        IN  IF DOMAIN goals = {} THEN storage_get_goal(date) = NoGoal
            ELSE /\ storage_get_goal(date).start_date = key
                 /\ storage_get_goal(date).goal_type = goals[key].goal_type
                 /\ storage_get_goal(date).goal_value = goals[key].goal_value

\* Two different goals are stored, and a date before both resolves to the
\* earlier one while a date after both resolves to the later one.
C1_Witness ==
    /\ DOMAIN goals = {DateOf(2), TimestampOf(3)}
    /\ goals[DateOf(2)] # goals[TimestampOf(3)]
    /\ storage_get_goal(TimestampOf(1)).start_date = DateOf(2)
    /\ storage_get_goal(SpaceTimestampOf(3)).start_date = DateOf(2)
    /\ storage_get_goal(TimestampOf(3)).start_date = TimestampOf(3)

\* The value of a sparse map m that applies to a day: the exact one, else the
\* one of the latest earlier key, else the one of the earliest later key, else
\* the default.
HistoricalLookup(m, day, default) ==
    LET t == DateOf(day)
        before == {k \in DOMAIN m : StrLeq(k, t) /\ k # t}
        after == {k \in DOMAIN m : ~StrLeq(k, t)}
    IN  IF t \in DOMAIN m THEN m[t]
        ELSE IF before # {} THEN m[MaxKey(before)]
        ELSE IF after # {} THEN m[MinKey(after)]
        ELSE default

\* C2: get_weight and get_body_fat_pct return the value logged for the date,
\* else the value of the latest earlier date, else the value of the earliest
\* later date, and the profile default only when nothing is logged.
C2_HistoricalLookup ==
    \A d \in QueryArgs :
        /\ get_weight(d) = HistoricalLookup(weights, TargetDay(d), user.starting_weight)
        /\ get_body_fat_pct(d) =
               HistoricalLookup(body_fat_pcts, TargetDay(d), user.body_fat_pct)

\* Weights are logged for the last two days only, with different values: the
\* first day takes the earliest later value, not the profile default, while no
\* body fat is logged and the profile value answers.
C2_Witness ==
    /\ DOMAIN weights = {DateOf(2), DateOf(3)}
    /\ weights[DateOf(2)] # weights[DateOf(3)]
    /\ get_weight(TimestampOf(1)) = weights[DateOf(2)]
    /\ get_weight(DateOf(1)) # user.starting_weight
    /\ DOMAIN body_fat_pcts = {}
    /\ get_body_fat_pct(DateOf(1)) = user.body_fat_pct

\* C8: once async_log_weight(v, D) (async_log_body_fat_pct(v, D)) has completed,
\* get_weight(D) (get_body_fat_pct(D)) returns v, whatever is logged for other
\* dates, for D a date, a timestamp YYYY-MM-DDTHH:MM or absent (today).
C8_LogThenGet ==
    [][ /\ \A v \in WeightVals, d \in DateArgs :
               async_log_weight(v, d) =>
                   /\ (get_weight(d))' = v
                   /\ (get_weight(isoformat(TargetDay(d))))' = v
        /\ \A p \in BodyFatVals, d \in DateArgs :
               async_log_body_fat_pct(p, d) =>
                   /\ (get_body_fat_pct(d))' = p
                   /\ (get_body_fat_pct(isoformat(TargetDay(d))))' = p
      ]_vars

\* A value logged for the second day stands between different values of its
\* neighbours, and the second day answers with its own.
C8_Witness ==
    /\ DOMAIN weights = {DateOf(1), DateOf(2), DateOf(3)}
    /\ weights[DateOf(1)] = weights[DateOf(3)]
    /\ weights[DateOf(2)] # weights[DateOf(1)]
    /\ get_weight(TimestampOf(2)) = weights[DateOf(2)]
    /\ store.weights = weights

\* C9: logging a weight (a body-fat percentage) for a date replaces the value of
\* that date, adds the date if it is new, and leaves every other date's value
\* and the other map unchanged; from empty maps, every map so holds one value
\* per logged date, the one logged last.
C9_LogOverwritesOneDate ==
    [][ /\ \A v \in WeightVals, d \in DateArgs :
               async_log_weight(v, d) =>
                   /\ DOMAIN weights' = DOMAIN weights \cup {isoformat(TargetDay(d))}
                   /\ weights'[isoformat(TargetDay(d))] = v
                   /\ \A k \in DOMAIN weights \ {isoformat(TargetDay(d))} :
                          weights'[k] = weights[k]
                   /\ body_fat_pcts' = body_fat_pcts
        /\ \A p \in BodyFatVals, d \in DateArgs :
               async_log_body_fat_pct(p, d) =>
                   /\ DOMAIN body_fat_pcts' = DOMAIN body_fat_pcts \cup {isoformat(TargetDay(d))}
                   /\ body_fat_pcts'[isoformat(TargetDay(d))] = p
                   /\ \A k \in DOMAIN body_fat_pcts \ {isoformat(TargetDay(d))} :
                          body_fat_pcts'[k] = body_fat_pcts[k]
                   /\ weights' = weights
      ]_vars

\* Both maps hold a value for every day, so that a further log overwrites.
C9_Witness ==
    /\ DOMAIN weights = {DateOf(d) : d \in Days}
    /\ DOMAIN body_fat_pcts = {DateOf(d) : d \in Days}
    /\ \E d \in Days : weights[DateOf(d)] # weights[DateOf(1)]
    /\ store.weights = weights /\ store.body_fat_pcts = body_fat_pcts


\* The profile holds what every tier needs for the date: a sex, a height and a
\* weight other than 0.
HasMinimumData(d) ==
    /\ user.sex # NoneStr
    /\ user.height # None /\ user.height # 0
    /\ get_weight(d) # None /\ get_weight(d) # 0

\* BMI <= 25 for the weight of the date: kg / m^2, in integers.
BmiAtMost25(d) ==
    4 * get_weight(d) * KgMicro(get_weight_unit) <= get_height_in_cm * get_height_in_cm

\* Mifflin-St Jeor in tenths, rounded to one decimal: 10 kg + 6.25 cm - 5 age + 5,
\* or - 161 for a woman; everything in units of 10^-5 kcal before rounding.
MifflinStJeor(d) ==
    LET age == YearOf(TargetDay(d)) - user.birth_year
        sexTerm == IF lower(user.sex) = "male" THEN 5 ELSE -161
    IN  RoundHalfEven(get_weight(d) * KgMicro(get_weight_unit)
                          + 6250 * get_height_in_cm
                          + 100000 * (sexTerm - 5 * age),
                      10000)

\* C3: with no body-fat percentage logged, BMI <= 25 and sex, height, weight and
\* birth year set, calculate_bmr(date) is the Mifflin-St Jeor value; a man of
\* 180 cm, 80 kg and 30 years gets 1780.0.
C3_MifflinWithoutBodyFat ==
    \A d \in QueryArgs :
        ( /\ DOMAIN body_fat_pcts = {}
          /\ lower(user.sex) \in {"male", "female"}
          /\ HasMinimumData(d)
          /\ user.birth_year # None
          /\ BmiAtMost25(d) )
        => calculate_bmr(d) = MifflinStJeor(d)

\* The body-fat tiers in tenths: Cunningham above 25 %, Katch-McArdle up to 25 %.
BodyFatTiers(weight, weight_unit, pct) ==
    IF pct > 2500
    THEN RoundQuot(5000, 220 * weight * (10000 - pct), KgMicro(weight_unit), 1000000, 10000)
    ELSE RoundQuot(3700, 216 * weight * (10000 - pct), KgMicro(weight_unit), 1000000, 10000)

\* C4 as stated: whenever a body-fat percentage is logged, calculate_bmr is the
\* Cunningham value above 25 % and the Katch-McArdle value up to 25 %, whatever
\* the sex (set or not) and the birth year.
C4_AsStated ==
    \A d \in QueryArgs :
        (DOMAIN body_fat_pcts # {})
        => calculate_bmr(d) =
               BodyFatTiers(get_weight(d), get_weight_unit, get_body_fat_pct(d))

\* C4, amended: when a body-fat percentage applies to the date and the profile
\* has a sex, a height and a weight other than 0, calculate_bmr is the
\* Cunningham value if the percentage is > 25 and the Katch-McArdle value if it
\* is <= 25 (25 itself included); which sex it is and the birth year play no role.
C4_BodyFatTiers ==
    \A d \in QueryArgs :
        (get_body_fat_pct(d) # None /\ HasMinimumData(d))
        => calculate_bmr(d) =
               BodyFatTiers(get_weight(d), get_weight_unit, get_body_fat_pct(d))

\* 25 % is logged for the first day and 30 % for the second, for a profile
\* whose sex is neither male nor female and that has no birth year: the first
\* day gets Katch-McArdle, the second Cunningham (180 lbs).
C4_Witness ==
    /\ body_fat_pcts = (DateOf(1) :> 2500 @@ DateOf(2) :> 3000)
    /\ user.sex = "other" /\ user.birth_year = None
    /\ user.height = 180 /\ get_weight_unit = "lbs"
    /\ get_weight(DateOf(1)) = 180 /\ get_weight(DateOf(2)) = 180
    /\ calculate_bmr(DateOf(1)) = 16927
    /\ calculate_bmr(DateOf(2)) = 17574

\* An integer a method returns for the real number x: x truncated or rounded,
\* whichever the method does.
IsIntegerOf(n, x) == n = x.i \/ (x.f # 0 /\ n = x.i + 1)

\* bmr * neat for the date, bmr in tenths and neat in hundredths.
BmrTimesNeat(d) == FxFrac(calculate_bmr(d) * user.neat, 1000)

\* C5: calculate_daily_goal_calories(date) returns goal_value for fixed_intake
\* and fixed_net_calories goals, bmr*neat - goal_value for a fixed_deficit goal
\* and bmr*neat + goal_value for a fixed_surplus goal, the goal being the one
\* get_goal resolves for the date and bmr the BMR computed for the date.
C5_FixedGoalTargets ==
    \A d \in QueryArgs :
        LET goal == get_goal(d)
            goal_value == FxFrac(goal.goal_value, 100)
            result == calculate_daily_goal_calories(d)
        IN  goal # NoGoal =>
              /\ goal.goal_type \in {"fixed_intake", "fixed_net_calories"}
                     => IsIntegerOf(result, goal_value)
              /\ (goal.goal_type = "fixed_deficit" /\ calculate_bmr(d) # None)
                     => IsIntegerOf(result, FxSub(BmrTimesNeat(d), goal_value))
              /\ (goal.goal_type = "fixed_surplus" /\ calculate_bmr(d) # None)
                     => IsIntegerOf(result, FxAdd(BmrTimesNeat(d), goal_value))

\* The per-day delta weight * goal_value/100 * 3500/7 of a weight in lbs,
\* goal_value in hundredths.
DeltaLbs(weight, goal_value) == FxFrac(weight * goal_value, 20)

\* C6: for variable_cut and variable_bulk goals with weight unit lbs,
\* calculate_daily_goal_calories returns bmr*neat minus (cut) or plus (bulk)
\* weight * goal_value/100 * 3500/7.
C6_VariableGoalTargets ==
    \A d \in QueryArgs :
        LET goal == get_goal(d)
            delta == DeltaLbs(get_weight(d), goal.goal_value)
            result == calculate_daily_goal_calories(d)
        IN  (goal # NoGoal /\ get_weight_unit = "lbs" /\ calculate_bmr(d) # None) =>
              /\ goal.goal_type = "variable_cut"
                     => IsIntegerOf(result, FxSub(BmrTimesNeat(d), delta))
              /\ goal.goal_type = "variable_bulk"
                     => IsIntegerOf(result, FxAdd(BmrTimesNeat(d), delta))

\* The food and the exercise calories logged for a day.
DayFood(day) ==
    SeqSum([i \in 1..Len(food_entries) |->
        IF food_entries[i].timestamp.day = day THEN food_entries[i].calories ELSE 0])
DayExercise(day) ==
    SeqSum([i \in 1..Len(exercise_entries) |->
        IF exercise_entries[i].timestamp.day = day
        THEN exercise_entries[i].calories_burned ELSE 0])

\* consumed: the day's food for a fixed_intake goal, food minus exercise for
\* every other goal type.
Consumed(d) ==
    IF get_goal(d).goal_type = "fixed_intake" THEN DayFood(TargetDay(d))
    ELSE DayFood(TargetDay(d)) - DayExercise(TargetDay(d))

KnownGoalTypes ==
    {"fixed_intake", "fixed_net_calories", "fixed_deficit", "fixed_surplus",
     "variable_cut", "variable_bulk"}

VariableDelta(weight, weight_unit, goal_value) ==
    IF weight_unit = "kg"
    THEN LET m == MulDivMod(weight * goal_value, 110231, 1000000) IN Fx(m.q, m.r)
    ELSE DeltaLbs(weight, goal_value)

C11_NoneWithoutMinimumData ==
    \A d \in QueryArgs :
        /\ calculate_bmr(d) = None \/ calculate_bmr(d) \in Nat
        /\ ( \/ user.sex = NoneStr
             \/ user.height = None
             \/ get_weight(d) = None \/ get_weight(d) = 0 )
           => calculate_bmr(d) = None

\* A body-fat percentage is logged, the weight is 80 and the height is set, but
\* the sex is not: no BMR for the date.
C11_Witness ==
    /\ user.sex = NoneStr /\ user.height = 180
    /\ DOMAIN body_fat_pcts # {} /\ get_weight(DateOf(1)) = 80
    /\ calculate_bmr(DateOf(1)) = None

\* Some entry in LOADED state carries the name, compared case-insensitively.
NameMatchesLoaded(spoken_name) ==
    \E i \in 1..Len(config_entries) :
        /\ lower(config_entries[i].spoken_name) = lower(spoken_name)
        /\ config_entries[i].state = "LOADED"

\* C12: a log_food, log_exercise, log_weight, log_body_fat or fetch_data call
\* whose spoken_name matches no config entry, or only entries that are not in
\* LOADED state, raises ServiceValidationError and leaves every user's food
\* entries, exercise entries, weights, body-fat values and goals unchanged.
C12_UnknownNameRaises ==
    [][\A n \in CalledNames :
          ( /\ service_response' # NoResponse
            /\ service_response'.spoken_name = n
            /\ ~NameMatchesLoaded(n) )
          => ( /\ service_response'.raised = "ServiceValidationError"
               /\ runtime_data' = runtime_data )]_vars

\* C20: whenever _get_entry_for_spoken_name(name) returns an entry in LOADED
\* state, the spoken_name that entry carries now equals name, compared
\* case-insensitively, whatever lookups, loads, unloads and renames came before.
C20_LookupReturnsNamedEntry ==
    \A n \in CalledNames :
        LET entry == get_entry_for_spoken_name(n).entry
        IN  (entry # NoEntry /\ entry.state = "LOADED")
                => lower(entry.spoken_name) = lower(n)

\* C13: after any sequence of log, update_entry and delete_entry operations
\* every stored food and exercise entry has an id, and no two entries of the
\* same list share an id.
HasUniqueIds(entries) ==
    /\ \A i \in 1..Len(entries) : entries[i].id # None
    /\ \A i, j \in 1..Len(entries) : entries[i].id = entries[j].id => i = j

C13_EntriesHaveUniqueIds ==
    HasUniqueIds(food_entries) /\ HasUniqueIds(exercise_entries)

\* C14: the NEAT multiplier lies within [1.0, 2.0], in the entry the config
\* flow creates and in the entry and the user after any sequence of
\* update_profile commands.
C14_NeatWithinRange ==
    /\ 100 <= user.neat /\ user.neat <= 200
    /\ \A i \in 1..Len(config_entries) :
           100 <= config_entries[i].neat /\ config_entries[i].neat <= 200

\* C15: after any sequence of weight, body-fat and goal writes through the
\* services, the voice intents and the websocket commands, every key of
\* weights, body_fat_pcts and goals is a YYYY-MM-DD string, whatever the caller
\* passed as date.
C15_KeysAreDates ==
    \A k \in (DOMAIN weights) \cup (DOMAIN body_fat_pcts) \cup (DOMAIN goals) :
        k.form = "date"

\* C16: after every completed logging, goal, delete_entry and update_entry
\* operation the data last written to the store is the in-memory state, so
\* async_load on a fresh manager yields the same five collections.
C16_StoreMatchesMemory ==
    async_load = [food_entries |-> food_entries,
                  exercise_entries |-> exercise_entries,
                  weights |-> weights,
                  body_fat_pcts |-> body_fat_pcts,
                  goals |-> goals]

C16_Witness ==
    /\ store.saved
    /\ Len(food_entries) = 1 /\ food_entries[1].calories = 500
    /\ exercise_entries = <<>> /\ next_id = 3
    /\ DOMAIN weights # {} /\ DOMAIN goals # {}

\* C17: for an entry of any version 1 to 5 async_migrate_entry returns True and
\* leaves the entry at VERSION = 6 with every key the intermediate versions
\* introduced present in its data.
C17_MigratesToCurrent ==
    service_response # NoResponse
        => /\ service_response.result = TRUE
           /\ config_entries[1].version = VERSION
           /\ MigrationKeys \subseteq config_entries[1].data

\* C18: get_goal and calculate_daily_goal_calories only read. A call leaves the
\* logs, the goals, the profile and the day as they were, so the same call made
\* next, with no write in between, computes from the same state and returns the
\* same: what a call answers is what the method returns in the state it leaves
\* behind. No stored goal gains a start_date field.
C18_ReadsRepeatAndLeaveGoals ==
    [][( \/ service_response'.service # service_response.service
         \/ service_response' # service_response )
          => /\ UNCHANGED <<storage_vars, user, today>>
             /\ \A k \in DOMAIN goals' :
                    DOMAIN goals'[k] = {"goal_type", "goal_value"}
             /\ \A d \in ReadDates : get_goal(d)' = get_goal(d)
             /\ \A service \in {"get_goal", "calculate_daily_goal_calories"},
                   d \in ReadDates :
                    ( /\ service_response'.service = service
                      /\ service_response'.date = d )
                    => service_response'.result = Returned(service, d)
      ]_vars

\* A target was computed for a date before the only stored goal, a variable
\* cut, and the goal is still stored under its own key.
C18_Witness ==
    /\ service_response # NoResponse
    /\ service_response.service = "calculate_daily_goal_calories"
    /\ service_response.date = DateOf(1)
    /\ service_response.result > 0
    /\ DOMAIN goals = {TimestampOf(2)}
    /\ goals[TimestampOf(2)].goal_type = "variable_cut"

\* The exercise entries logged for the workout of an id.
LoggedFor(id) ==
    {i \in 1..Len(exercise_entries) :
        exercise_entries[i].calories_burned =
            extract_calories_from_workout([id |-> id])}

\* C19: each Peloton workout id is logged as an exercise entry at most once,
\* and only when the workout is COMPLETE, however the runs of
\* poll_latest_workout overlap at their awaits.
C19_WorkoutLoggedOnce ==
    \A id \in 1..MaxWorkouts :
        /\ Cardinality(LoggedFor(id)) <= 1
        /\ LoggedFor(id) # {}
              => \/ id < peloton_latest.id
                 \/ id = peloton_latest.id /\ peloton_latest.status = "COMPLETE"

\* C21: no two config entries have the same spoken name up to letter case and
\* surrounding whitespace, after any config flows and update_profile renames.
C21_SpokenNamesDiffer ==
    \A i, j \in 1..Len(config_entries) :
        i # j => lower(strip(config_entries[i].spoken_name))
                    # lower(strip(config_entries[j].spoken_name))

\* The per-day delta of a variable goal as the target computation takes it, and
\* bmr * neat, both before rounding, for today.
IntentDelta == daily_adjustment(get_weight(NoDate), get_weight_unit,
                                get_goal(NoDate).goal_value)
IntentBaseline == bmr_baseline(calculate_bmr(NoDate), get_neat)

\* C22: the remaining calories the LogCalories and GetRemainingCalories intents
\* report come from the target of the goal resolver: with a variable_bulk goal
\* the per-day delta is added to bmr * neat, with a variable_cut goal it is
\* subtracted; the consumption of the day is taken off that target. The
\* intents round where the resolver truncates, so the two may differ by the
\* rounding, less than 2 kcal.
C22_IntentUsesResolverTarget ==
    LET goal == get_goal(NoDate)
        log == get_log(NoDate)
        target == calculate_daily_goal_calories(NoDate)
        reported == intent_remaining_calories(NoDate) + (log.food - log.exercise)
    IN  ( /\ goal # NoGoal
          /\ goal.goal_type \in {"variable_cut", "variable_bulk"}
          /\ get_weight_unit = "lbs" )
        => /\ reported - target \in -1..1
           /\ goal.goal_type = "variable_bulk" => reported >= FxTrunc(IntentBaseline)
           /\ goal.goal_type = "variable_cut" => reported <= FxTrunc(IntentBaseline) + 1

\* C23: for every date of the week, the daily_calorie_goal that
\* get_weekly_summary reports for the date is calculate_daily_goal_calories of
\* that date, whatever the stored goals, the weight unit and the profile.
C23_WeeklyGoalIsResolverTarget ==
    \A d \in Days :
        get_weekly_summary(NoDate)[isoformat(d)]
            = calculate_daily_goal_calories(isoformat(d))

\* The place of the last goal of a message that has the start date.
LastListed(message_goals, start_date) ==
    CHOOSE i \in 1..Len(message_goals) :
        /\ message_goals[i].start_date = start_date
        /\ \A j \in (i + 1)..Len(message_goals) :
               message_goals[j].start_date # start_date

C25_SaveGoalsAllOrNothing ==
    save_goals_run # NoRun
        => \/ goals = save_goals_run.before
           \/ /\ \A i \in 1..Len(save_goals_run.message) :
                     save_goals_run.message[i].goal_value # None
              /\ goals = AddGoals(EmptyDict, save_goals_run.message)

\* C26: whenever at least one config entry exists the five services are
\* registered, also for an entry added after all earlier entries were removed.
C26_ServicesWhileEntries ==
    Len(config_entries) > 0 => services_registered

\* C26, second part: the services are removed only with the last entry.
C26_ServicesRemovedWithLastEntry ==
    [][services_registered /\ ~services_registered' => Len(config_entries') = 0]_vars

\* C28: async_set calls for different user ids, interleaved at their awaits,
\* all take effect: once they are done async_get returns the entry of each
\* and the persisted map holds each.
C28_BothAsyncSetTakeEffect ==
    (\A u \in DOMAIN async_set_runs : async_set_runs[u].pc = "done")
        => \A u \in DOMAIN async_set_runs :
               /\ async_get(u) = async_set_runs[u].entry_id
               /\ u \in DOMAIN profile_map_store
               /\ profile_map_store[u] = async_set_runs[u].entry_id

\* C30: delete_entry(entry_type, entry_id) removes exactly the entry with that
\* id from the list of that type and returns True; with no such entry in that
\* list, or an entry_type that is neither food nor exercise, it returns False
\* and changes nothing; the other list, the remaining entries and their order,
\* the weights, the body fat values and the goals are unchanged in every case.
C30_DeleteEntryRemovesExactlyOne ==
    [][\A t \in DeleteTypes, i \in 1..MaxIds :
           websocket_delete_entry(t, i) =>
               LET entries == CASE t = "food" -> food_entries
                                [] t = "exercise" -> exercise_entries
                                [] OTHER -> <<>>
                   entries_after == CASE t = "food" -> food_entries'
                                      [] t = "exercise" -> exercise_entries'
                                      [] OTHER -> <<>>
                   has_id == \E k \in 1..Len(entries) : entries[k].id = i
               IN  /\ service_response'.raised = NoneStr
                   /\ service_response'.result = has_id
                   /\ IF has_id
                      THEN \E k \in 1..Len(entries) :
                               /\ entries[k].id = i
                               /\ entries_after = DelAt(entries, k)
                      ELSE entries_after = entries
                   /\ t # "food" => food_entries' = food_entries
                   /\ t # "exercise" => exercise_entries' = exercise_entries
                   /\ UNCHANGED <<weights, body_fat_pcts, goals>>]_vars

\* C27: once async_remove_entry has deleted an entry's store, no later action
\* writes that store again.
C27_NoWriteAfterRemove ==
    [][EntryRemoved => store' = store]_vars

=============================================================================
